---- MODULE Spec2Model ----
(***************************************************************************)
(* A model of the satellite telemetry pipeline: the CSV loader             *)
(* (core/data_loader.py), the threshold checker (core/data_checker.py),    *)
(* the analysis stages (core/data_analysis.py) and the report generator    *)
(* (core/data_report.py).                                                  *)
(*                                                                         *)
(* Numbers.  Temperatures and voltages are held in tenths of their unit    *)
(* (40.0 degC is 400, 8.4 V is 84), the semi-major axis a in hundreds of   *)
(* km and the other orbital elements in the unit of the threshold file.    *)
(* A missing float (numpy nan) is NaN and a missing instant (pandas NaT)   *)
(* is NaT; every comparison with either is false, as in Python.  Instants  *)
(* are milliseconds after 2026-01-01T00:00Z.                               *)
(*                                                                         *)
(* Dictionaries are functions; a key that is absent is outside DOMAIN.     *)
(* An optional value (Python None) is the empty sequence, a present one    *)
(* the one-element sequence.                                               *)
(***************************************************************************)
EXTENDS Integers, Sequences, FiniteSets, TLC

VARIABLES
    pc,             \* the step the modelled run has reached
    df,             \* the table (a sequence of rows) handed to the stages
    thresholds,     \* DataChecker.thresholds
    alarms,         \* what check_all_thresholds returned
    config_file,    \* the argument of DataChecker(...) and the file behind it
    checker,        \* the outcome of constructing a DataChecker
    raw,            \* the table pd.read_csv produced
    loader,         \* DataLoader.data / current_file and load_csv's outcome
    normalized,     \* the table after the column steps of _validate_data
    files,          \* the tables of the CSV files of the data directory
    cycle_size,     \* generate_cycle_report's cycle_size
    cycle_reports,  \* what generate_cycle_report returned
    analysis,       \* what the data_analysis stages return for df
    clock,          \* the wall clock read by datetime.now()
    summaries,      \* the summaries create_summary_report returned so far
    alarm_runs,     \* the alarm lists of the runs of check_all_thresholds so far
    frame,          \* the table object the caller hands to the stages
    calls,          \* the stage calls made on it so far
    params,         \* the keyword arguments of the stage call
    gui             \* the GUI's loader fields and its background load threads

vars == <<pc, df, thresholds, alarms, config_file, checker, raw, loader,
          normalized, files,
          cycle_size, cycle_reports, analysis, clock, summaries, alarm_runs,
          frame, calls, params, gui>>

checkVars  == <<df, thresholds, alarms>>
configVars == <<config_file, checker>>
loadVars   == <<raw, loader, normalized, files>>
cycleVars  == <<cycle_size, cycle_reports>>
reportVars == <<analysis, clock, summaries, alarm_runs>>
stageVars  == <<frame, calls, params>>

-----------------------------------------------------------------------------
(* Values *)

NaN == -99999
NaT == -88888

None == << >>
Some(v) == << v >>

\* dict.get(k, default)
Get(d, k, default) == IF k \in DOMAIN d THEN d[k] ELSE default

\* dict.get(k): None when the key is absent
GetOpt(d, k) == IF k \in DOMAIN d THEN Some(d[k]) ELSE None

\* a comparison that orders a missing value below every number
LtOrdered(x, y) == y # NaN /\ x < y

\* Python's x > y and x < y on floats: false when x is nan
Gt(x, y) == x # NaN /\ y # NaN /\ x > y
Lt(x, y) == x # NaN /\ y # NaN /\ x < y

EmptyDict == [k \in {} |-> 0]

RECURSIVE Flatten(_)
Flatten(ss) == IF ss = << >> THEN << >> ELSE Head(ss) \o Flatten(Tail(ss))

-----------------------------------------------------------------------------
(* Ordering by the timestamp column *)

\* the order sort_values('timestamp') gives two instants: NaT sorts last
StampBefore(t, u) == t # NaT /\ (u = NaT \/ t < u)

\* Python's < on two timestamp texts (see RawStamps): character by character;
\* the fixed-width date texts order by local time and then by offset, and a
\* text starting with a letter follows every text starting with a digit
TextLess(x, y) ==
    IF x.text = "iso" /\ y.text = "iso"
    THEN x.local < y.local \/ (x.local = y.local /\ x.off < y.off)
    ELSE IF x.text = "iso" THEN TRUE
    ELSE IF y.text = "iso" THEN FALSE
    ELSE x.text = "pending" /\ y.text = "unknown"

\* the column's own order: text cells compare as str, datetime cells as instants
StampLess(kind, t, u) == IF kind = "text" THEN TextLess(t, u) ELSE StampBefore(t, u)

RECURSIVE InsertRow(_, _, _)
InsertRow(sorted, r, kind) ==
    IF sorted = << >> THEN << r >>
    ELSE IF StampLess(kind, r.timestamp, Head(sorted).timestamp)
         THEN << r >> \o sorted
         ELSE << Head(sorted) >> \o InsertRow(Tail(sorted), r, kind)

RECURSIVE SortRows(_, _)
\* DataFrame.sort_values('timestamp') on a sequence of records with a
\* timestamp field; rows with equal timestamps keep their order (the
\* insertion sort numpy uses on short arrays)
SortRows(rows, kind) ==
    IF rows = << >> THEN << >>
    ELSE InsertRow(SortRows(SubSeq(rows, 1, Len(rows) - 1), kind), rows[Len(rows)], kind)

-----------------------------------------------------------------------------
(* Bounds of the model *)

MaxRows == 2            \* rows of a table given to the checker
MaxInstant == 1         \* instants 0..MaxInstant

Instants == 0 .. MaxInstant
Stamps == Instants \cup {NaT}

-----------------------------------------------------------------------------
(* The canonical table: DataLoader.EXPECTED_COLUMNS *)

OrbitParams == << "a", "e", "i", "raan", "argp", "mean_anomaly" >>

\* the eight measured columns of one sample
Readings ==
    { [temperature |-> 250, battery_voltage |-> 78, a |-> 70, e |-> 1,
       i |-> 98, raan |-> 120, argp |-> 45, mean_anomaly |-> 180],
      [temperature |-> 450, battery_voltage |-> 65, a |-> 70, e |-> 1,
       i |-> 98, raan |-> 120, argp |-> 45, mean_anomaly |-> 180],
      [temperature |-> 390, battery_voltage |-> 83, a |-> 60, e |-> 9,
       i |-> 98, raan |-> 120, argp |-> 45, mean_anomaly |-> 400],
      [temperature |-> 130, battery_voltage |-> 90, a |-> 90, e |-> 1,
       i |-> NaN, raan |-> 120, argp |-> 45, mean_anomaly |-> 180],
      [temperature |-> 190, battery_voltage |-> 72, a |-> NaN, e |-> 1,
       i |-> 98, raan |-> 120, argp |-> 45, mean_anomaly |-> 180],
      [temperature |-> NaN, battery_voltage |-> NaN, a |-> 70, e |-> NaN,
       i |-> 98, raan |-> 120, argp |-> 45, mean_anomaly |-> 180] }

NominalReading == CHOOSE r \in Readings : r.temperature = 250

Row(t, r) ==
    [timestamp |-> t, temperature |-> r.temperature,
     battery_voltage |-> r.battery_voltage, a |-> r.a, e |-> r.e, i |-> r.i,
     raan |-> r.raan, argp |-> r.argp, mean_anomaly |-> r.mean_anomaly]

\* every reading at every instant; a row whose timestamp is missing carries
\* the nominal reading or the hot one
Rows ==
    { Row(t, r) : t \in Instants, r \in Readings }
    \cup { Row(NaT, r) : r \in { q \in Readings : q.temperature \in {250, 450} } }

Tables(n) == UNION { [1 .. k -> Rows] : k \in 0 .. n }

-----------------------------------------------------------------------------
(* Threshold configuration: config/thresholds.yaml as yaml.safe_load       *)
(* returns it: a mapping from categories to their thresholds.  A category  *)
(* may be absent from the file, or present with an empty mapping.          *)

Bands == {"alarm_max", "alarm_min", "warning_max", "warning_min"}

\* the fallbacks written into check_temperature and check_battery_voltage
TempAlarmMax == 400
TempAlarmMin == 150
TempWarningMax == 380
TempWarningMin == 200
VoltAlarmMax == 84
VoltAlarmMin == 70
VoltWarningMax == 82
VoltWarningMin == 73

TempConfigs ==
    { EmptyDict,
      [alarm_max |-> 400, alarm_min |-> 150, warning_max |-> 380, warning_min |-> 200],
      [alarm_max |-> 420, warning_min |-> 180],
      [alarm_max |-> 380, alarm_min |-> 200, warning_max |-> 400, warning_min |-> 150] }

VoltConfigs ==
    { EmptyDict,
      [alarm_max |-> 84, alarm_min |-> 70, warning_max |-> 82, warning_min |-> 73],
      [warning_max |-> 80, alarm_min |-> 75] }

OrbitConfigs ==
    { EmptyDict,
      [a |-> [min |-> 65, max |-> 80], e |-> [max |-> 5],
       mean_anomaly |-> [min |-> 0, max |-> 360]],
      [a |-> [min |-> 75], i |-> EmptyDict, raan |-> [min |-> 0, max |-> 100]] }

Categories == {"temperature", "battery_voltage", "orbit_parameters"}

\* the files that name every category
FullConfigs ==
    { [temperature |-> t, battery_voltage |-> v, orbit_parameters |-> o] :
        t \in TempConfigs, v \in VoltConfigs, o \in OrbitConfigs }

\* every file: a category with an empty mapping may also be left out
Configs ==
    UNION { { [c \in Categories \ gone |-> full[c]] :
                gone \in SUBSET { c \in Categories : DOMAIN full[c] = {} } } :
            full \in FullConfigs }

\* the files the checker is run with: the voltage and orbit mappings are
\* taken in pairs (both empty, one empty, both the first, both the second)
CheckedConfigs ==
    { c \in Configs :
        LET v == Get(c, "battery_voltage", EmptyDict)
            o == Get(c, "orbit_parameters", EmptyDict)
        IN  \/ DOMAIN v = {} /\ ("a" \in DOMAIN o => "e" \in DOMAIN o)
            \/ "alarm_max" \in DOMAIN v /\ ("a" \in DOMAIN o => "e" \in DOMAIN o)
            \/ "alarm_max" \notin DOMAIN v /\ DOMAIN v # {} /\ "i" \in DOMAIN o }

-----------------------------------------------------------------------------
(* core/data_checker.py *)

Alarm(timestamp, type, level, value, text, limit) ==
    [timestamp |-> timestamp, type |-> type, level |-> level, value |-> value,
     message |-> [text |-> text, limit |-> limit]]

\* the body of check_temperature's loop with the warning tier tested by an
\* if of its own instead of an elif
TemperatureAlarmsNoElif(cfg, row) ==
    LET temp == row.temperature
        ts == row.timestamp
    IN  (IF Gt(temp, Get(cfg, "alarm_max", TempAlarmMax))
         THEN << Alarm(ts, "temperature", "alarm", temp, "severely_high", GetOpt(cfg, "alarm_max")) >>
         ELSE IF Lt(temp, Get(cfg, "alarm_min", TempAlarmMin))
         THEN << Alarm(ts, "temperature", "alarm", temp, "too_low", GetOpt(cfg, "alarm_min")) >>
         ELSE << >>)
        \o
        (IF Gt(temp, Get(cfg, "warning_max", TempWarningMax))
         THEN << Alarm(ts, "temperature", "warning", temp, "high", GetOpt(cfg, "warning_max")) >>
         ELSE IF Lt(temp, Get(cfg, "warning_min", TempWarningMin))
         THEN << Alarm(ts, "temperature", "warning", temp, "low", GetOpt(cfg, "warning_min")) >>
         ELSE << >>)

\* the body of check_temperature's loop: the records one row adds
TemperatureAlarms(cfg, row) ==
    LET temp == row.temperature
        ts == row.timestamp
    IN  IF Gt(temp, Get(cfg, "alarm_max", TempAlarmMax))
        THEN << Alarm(ts, "temperature", "alarm", temp, "severely_high", GetOpt(cfg, "alarm_max")) >>
        ELSE IF Lt(temp, Get(cfg, "alarm_min", TempAlarmMin))
        THEN << Alarm(ts, "temperature", "alarm", temp, "too_low", GetOpt(cfg, "alarm_min")) >>
        ELSE IF Gt(temp, Get(cfg, "warning_max", TempWarningMax))
        THEN << Alarm(ts, "temperature", "warning", temp, "high", GetOpt(cfg, "warning_max")) >>
        ELSE IF Lt(temp, Get(cfg, "warning_min", TempWarningMin))
        THEN << Alarm(ts, "temperature", "warning", temp, "low", GetOpt(cfg, "warning_min")) >>
        ELSE << >>

\* check_temperature with a hold-off: a row adds no record when the row before
\* it added one
check_temperature_holdoff(th, table) ==
    LET temp_thresholds == Get(th, "temperature", EmptyDict)
    IN  IF temp_thresholds = EmptyDict
        THEN << >>
        ELSE Flatten([k \in 1 .. Len(table) |->
                IF k > 1 /\ TemperatureAlarms(temp_thresholds, table[k - 1]) # << >>
                THEN << >>
                ELSE TemperatureAlarms(temp_thresholds, table[k])])

\* check_temperature without the test that skips an unconfigured category
check_temperature_unskipped(th, table) ==
    Flatten([k \in 1 .. Len(table) |->
                TemperatureAlarms(Get(th, "temperature", EmptyDict), table[k])])

check_temperature(th, table) ==
    LET temp_thresholds == Get(th, "temperature", EmptyDict)
    IN  IF temp_thresholds = EmptyDict
        THEN << >>
        ELSE Flatten([k \in 1 .. Len(table) |-> TemperatureAlarms(temp_thresholds, table[k])])

\* the body of check_battery_voltage's loop
VoltageAlarms(cfg, row) ==
    LET voltage == row.battery_voltage
        ts == row.timestamp
    IN  IF Gt(voltage, Get(cfg, "alarm_max", VoltAlarmMax))
        THEN << Alarm(ts, "battery_voltage", "alarm", voltage, "severely_high", GetOpt(cfg, "alarm_max")) >>
        ELSE IF Lt(voltage, Get(cfg, "alarm_min", VoltAlarmMin))
        THEN << Alarm(ts, "battery_voltage", "alarm", voltage, "too_low", GetOpt(cfg, "alarm_min")) >>
        ELSE IF Gt(voltage, Get(cfg, "warning_max", VoltWarningMax))
        THEN << Alarm(ts, "battery_voltage", "warning", voltage, "high", GetOpt(cfg, "warning_max")) >>
        ELSE IF Lt(voltage, Get(cfg, "warning_min", VoltWarningMin))
        THEN << Alarm(ts, "battery_voltage", "warning", voltage, "low", GetOpt(cfg, "warning_min")) >>
        ELSE << >>

check_battery_voltage(th, table) ==
    LET voltage_thresholds == Get(th, "battery_voltage", EmptyDict)
    IN  IF voltage_thresholds = EmptyDict
        THEN << >>
        ELSE Flatten([k \in 1 .. Len(table) |-> VoltageAlarms(voltage_thresholds, table[k])])

\* f'orbit_{param}'
OrbitType(param) ==
    CASE param = "a" -> "orbit_a"
      [] param = "e" -> "orbit_e"
      [] param = "i" -> "orbit_i"
      [] param = "raan" -> "orbit_raan"
      [] param = "argp" -> "orbit_argp"
      [] param = "mean_anomaly" -> "orbit_mean_anomaly"

\* an inner loop that reports a value above max as a warning
OrbitParamAlarmsWarningTier(orbit_thresholds, row, param) ==
    LET value == row[param]
        param_thresholds == Get(orbit_thresholds, param, EmptyDict)
        min_val == GetOpt(param_thresholds, "min")
        max_val == GetOpt(param_thresholds, "max")
    IN  IF min_val # None /\ Lt(value, min_val[1])
        THEN << Alarm(row.timestamp, OrbitType(param), "alarm", value, "too_low", min_val) >>
        ELSE IF max_val # None /\ Gt(value, max_val[1])
        THEN << Alarm(row.timestamp, OrbitType(param), "warning", value, "too_high", max_val) >>
        ELSE << >>

\* the body of check_orbit_parameters' inner loop: one element of one row.
\* row.get(param) is never None for a column of the table (a missing value
\* is nan, which no comparison matches).
OrbitParamAlarms(orbit_thresholds, row, param) ==
    LET value == row[param]
        param_thresholds == Get(orbit_thresholds, param, EmptyDict)
        min_val == GetOpt(param_thresholds, "min")
        max_val == GetOpt(param_thresholds, "max")
    IN  IF min_val # None /\ Lt(value, min_val[1])
        THEN << Alarm(row.timestamp, OrbitType(param), "alarm", value, "too_low", min_val) >>
        ELSE IF max_val # None /\ Gt(value, max_val[1])
        THEN << Alarm(row.timestamp, OrbitType(param), "alarm", value, "too_high", max_val) >>
        ELSE << >>

OrbitRowAlarms(orbit_thresholds, row) ==
    Flatten([p \in 1 .. Len(OrbitParams) |->
                OrbitParamAlarms(orbit_thresholds, row, OrbitParams[p])])

check_orbit_parameters(th, table) ==
    LET orbit_thresholds == Get(th, "orbit_parameters", EmptyDict)
    IN  IF orbit_thresholds = EmptyDict
        THEN << >>
        ELSE Flatten([k \in 1 .. Len(table) |-> OrbitRowAlarms(orbit_thresholds, table[k])])

\* check_all_thresholds with the sort left out
check_all_thresholds_unsorted(th, table) ==
    check_temperature(th, table) \o check_battery_voltage(th, table)
        \o check_orbit_parameters(th, table)

check_all_thresholds(th, table) ==
    LET all_alarms == check_temperature(th, table) \o check_battery_voltage(th, table)
                        \o check_orbit_parameters(th, table)
    IN  SortRows(all_alarms, "datetime")


-----------------------------------------------------------------------------
(* Values the variables of the other specifications rest at *)

NoConfigFile == [arg |-> "none", state |-> "none", content |-> EmptyDict]
NoChecker == [status |-> "none", error |-> "none", thresholds |-> EmptyDict]
NoLoader == [status |-> "none", error |-> "none", data |-> None, current_file |-> None,
             returned |-> << >>]
NoAnalysis == [fails |-> {}, trend |-> EmptyDict, outliers |-> EmptyDict, orbit |-> EmptyDict]

IdleCheck  == df = << >> /\ thresholds = EmptyDict /\ alarms = << >>
IdleConfig == config_file = NoConfigFile /\ checker = NoChecker
IdleLoad   == raw = << >> /\ loader = NoLoader /\ normalized = << >> /\ files = << >>
IdleCycle  == cycle_size = 0 /\ cycle_reports = << >>
IdleReport == analysis = NoAnalysis /\ clock = 0 /\ summaries = << >> /\ alarm_runs = << >>
IdleStage  == frame = << >> /\ calls = << >> /\ params = << >>
IdleGui    == gui = << >>

-----------------------------------------------------------------------------
(* Spec: a constructed DataChecker evaluates a table *)

Init ==
    /\ IdleGui
    /\ pc = "ready"
    /\ df \in Tables(MaxRows)
    /\ thresholds \in CheckedConfigs
    /\ alarms = << >>
    /\ IdleConfig /\ IdleLoad /\ IdleCycle /\ IdleReport /\ IdleStage

\* DataChecker.check_all_thresholds(df)
CheckAllThresholds ==
    /\ pc = "ready"
    /\ alarms' = check_all_thresholds(thresholds, df)
    /\ pc' = "checked"
    /\ UNCHANGED <<gui, df, thresholds, configVars, loadVars, cycleVars, reportVars, stageVars>>

Next == CheckAllThresholds

Spec == Init /\ [][Next]_vars

-----------------------------------------------------------------------------
(* Claims on the threshold checker *)

\* the band the documented priority picks for value v, "none" when no band
\* matches: alarm_max, then alarm_min, then warning_max, then warning_min
FirstBand(v, aMax, aMin, wMax, wMin) ==
    IF v = NaN THEN "none"
    ELSE IF v > aMax THEN "alarm_max"
    ELSE IF v < aMin THEN "alarm_min"
    ELSE IF v > wMax THEN "warning_max"
    ELSE IF v < wMin THEN "warning_min"
    ELSE "none"

BandLevel(b) == IF b \in {"alarm_max", "alarm_min"} THEN "alarm" ELSE "warning"

BandText(b) ==
    CASE b = "alarm_max" -> "severely_high"
      [] b = "alarm_min" -> "too_low"
      [] b = "warning_max" -> "high"
      [] b = "warning_min" -> "low"

TempBandOf(v) ==
    LET cfg == Get(thresholds, "temperature", EmptyDict)
    IN  IF cfg = EmptyDict THEN "none"
        ELSE FirstBand(v, Get(cfg, "alarm_max", TempAlarmMax), Get(cfg, "alarm_min", TempAlarmMin),
                       Get(cfg, "warning_max", TempWarningMax), Get(cfg, "warning_min", TempWarningMin))

VoltBandOf(v) ==
    LET cfg == Get(thresholds, "battery_voltage", EmptyDict)
    IN  IF cfg = EmptyDict THEN "none"
        ELSE FirstBand(v, Get(cfg, "alarm_max", VoltAlarmMax), Get(cfg, "alarm_min", VoltAlarmMin),
                       Get(cfg, "warning_max", VoltWarningMax), Get(cfg, "warning_min", VoltWarningMin))

\* the samples of df and the records of alarms that carry timestamp t and value v
SamplesWith(col, t, v) ==
    Cardinality({k \in 1 .. Len(df) : df[k].timestamp = t /\ df[k][col] = v})
RecordsWith(col, t, v) ==
    Cardinality({k \in 1 .. Len(alarms) :
                    alarms[k].type = col /\ alarms[k].timestamp = t /\ alarms[k].value = v})

OneRecordPerSample(col, band) ==
    /\ \A k \in 1 .. Len(df) :
          LET t == df[k].timestamp
              v == df[k][col]
          IN  RecordsWith(col, t, v) = IF band[v] = "none" THEN 0 ELSE SamplesWith(col, t, v)
    /\ \A k \in 1 .. Len(alarms) :
          alarms[k].type = col =>
              LET b == band[alarms[k].value]
              IN  /\ b # "none"
                  /\ alarms[k].level = BandLevel(b)
                  /\ alarms[k].message.text = BandText(b)

\* C2: for temperature and for battery_voltage every sample yields at most one
\* alarm record, the one of the first band that matches in the order alarm_max,
\* alarm_min, warning_max, warning_min (so a value above alarm_max and
\* warning_max yields exactly one record, of level alarm), and none when no
\* band matches.
C2_OneAlarmPerSampleByPriority ==
    pc = "checked" =>
        /\ OneRecordPerSample("temperature",
                [v \in {df[k].temperature : k \in 1 .. Len(df)} \cup
                       {alarms[k].value : k \in 1 .. Len(alarms)} |-> TempBandOf(v)])
        /\ OneRecordPerSample("battery_voltage",
                [v \in {df[k].battery_voltage : k \in 1 .. Len(df)} \cup
                       {alarms[k].value : k \in 1 .. Len(alarms)} |-> VoltBandOf(v)])

\* a single sample above both alarm_max and warning_max was classified, and
\* the one temperature record is an alarm
C2_Witness ==
    /\ pc = "checked"
    /\ Len(df) = 1
    /\ "temperature" \in DOMAIN thresholds
    /\ thresholds.temperature # EmptyDict
    /\ Gt(df[1].temperature, Get(thresholds.temperature, "alarm_max", TempAlarmMax))
    /\ Gt(df[1].temperature, Get(thresholds.temperature, "warning_max", TempWarningMax))
    /\ Cardinality({k \in 1 .. Len(alarms) : alarms[k].type = "temperature"}) = 1
    /\ \E k \in 1 .. Len(alarms) : alarms[k].type = "temperature" /\ alarms[k].level = "alarm"

\* C10: the records check_all_thresholds returns are in ascending order of
\* timestamp, whatever their parameter; records without a timestamp come last.
C10_AlarmsSortedByTimestamp ==
    pc = "checked" =>
        \A k \in 1 .. Len(alarms) - 1 :
            \/ alarms[k + 1].timestamp = NaT
            \/ /\ alarms[k].timestamp # NaT
               /\ alarms[k].timestamp <= alarms[k + 1].timestamp

\* the records were produced out of order (a later sample's temperature record
\* precedes an earlier sample's voltage or orbit record) and came back sorted
C10_Witness ==
    /\ pc = "checked"
    /\ LET produced == check_all_thresholds_unsorted(thresholds, df)
       IN  /\ \E k \in 1 .. Len(produced) - 1 :
                  /\ produced[k].timestamp # NaT
                  /\ produced[k + 1].timestamp # NaT
                  /\ produced[k].timestamp > produced[k + 1].timestamp
                  /\ produced[k].type # produced[k + 1].type
           /\ Len(alarms) = Len(produced)

\* the alarm types of a category
CategoryTypes(c) ==
    IF c = "orbit_parameters" THEN {OrbitType(OrbitParams[p]) : p \in 1 .. Len(OrbitParams)}
    ELSE {c}

\* the records of a list whose type belongs to one of the categories cs
RecordsOf(list, cs) ==
    SelectSeq(list, LAMBDA r : \E c \in cs : r.type \in CategoryTypes(c))

\* the mappings the model has for a category
CategoryConfigs(c) ==
    IF c = "temperature" THEN TempConfigs
    ELSE IF c = "battery_voltage" THEN VoltConfigs
    ELSE OrbitConfigs

\* the configuration with category c set to x
WithCategory(config, c, x) ==
    [k \in DOMAIN config \cup {c} |-> IF k = c THEN x ELSE config[k]]

\* C11: a category that is absent from the configuration contributes no alarm
\* record, and the records of the other categories are the ones any
\* configuration with the same thresholds for those categories yields.
C11_AbsentCategoryIsSkipped ==
    pc = "checked" =>
        \A c \in Categories \ DOMAIN thresholds :
            /\ RecordsOf(alarms, {c}) = << >>
            /\ LET others == RecordsOf(alarms, Categories \ {c})
               IN  \A x \in CategoryConfigs(c) :
                      RecordsOf(check_all_thresholds(WithCategory(thresholds, c, x), df),
                                Categories \ {c}) = others

\* the temperature category is absent, a sample is far above the default
\* alarm limit and too low in voltage: only voltage records came back
C11_Witness ==
    /\ pc = "checked"
    /\ "temperature" \notin DOMAIN thresholds
    /\ "battery_voltage" \in DOMAIN thresholds
    /\ \E k \in 1 .. Len(df) : Gt(df[k].temperature, TempAlarmMax)
    /\ RecordsOf(alarms, {"temperature"}) = << >>
    /\ RecordsOf(alarms, {"battery_voltage"}) # << >>

\* the band of value v against the configured temperature bands, a missing
\* band being replaced by its documented default
TempBandWithDefaults(v) ==
    LET cfg == thresholds.temperature
    IN  FirstBand(v, Get(cfg, "alarm_max", TempAlarmMax), Get(cfg, "alarm_min", TempAlarmMin),
                  Get(cfg, "warning_max", TempWarningMax), Get(cfg, "warning_min", TempWarningMin))

VoltBandWithDefaults(v) ==
    LET cfg == thresholds.battery_voltage
    IN  FirstBand(v, Get(cfg, "alarm_max", VoltAlarmMax), Get(cfg, "alarm_min", VoltAlarmMin),
                  Get(cfg, "warning_max", VoltWarningMax), Get(cfg, "warning_min", VoltWarningMin))

\* C12: when the temperature (battery_voltage) category is present, every
\* sample is classified against its bands with the documented default in
\* place of each missing band, for every subset of missing bands, the subset
\* of all four included.
C12_MissingBandsUseDefaults ==
    pc = "checked" =>
        /\ "temperature" \in DOMAIN thresholds =>
              OneRecordPerSample("temperature",
                  [v \in {df[k].temperature : k \in 1 .. Len(df)} \cup
                         {alarms[k].value : k \in 1 .. Len(alarms)} |-> TempBandWithDefaults(v)])
        /\ "battery_voltage" \in DOMAIN thresholds =>
              OneRecordPerSample("battery_voltage",
                  [v \in {df[k].battery_voltage : k \in 1 .. Len(df)} \cup
                         {alarms[k].value : k \in 1 .. Len(alarms)} |-> VoltBandWithDefaults(v)])

\* how often record r occurs in a list
Occurrences(list, r) == Cardinality({k \in 1 .. Len(list) : list[k] = r})

\* the alarms of every row of df evaluated as a table of its own
AlarmsRowByRow ==
    Flatten([k \in 1 .. Len(df) |-> check_all_thresholds(thresholds, << df[k] >>)])

\* C13: the alarms of a table are the alarms of its rows evaluated one at a
\* time, each record as often as the rows yield it: no row's records depend
\* on the other rows or on the order of the rows.
C13_ClassificationIsPerRow ==
    pc = "checked" =>
        LET row_by_row == AlarmsRowByRow
        IN  /\ Len(alarms) = Len(row_by_row)
            /\ \A k \in 1 .. Len(alarms) :
                  Occurrences(alarms, alarms[k]) = Occurrences(row_by_row, alarms[k])

\* two rows, the later one first, both above the temperature alarm limit:
\* each has its temperature record
C13_Witness ==
    /\ pc = "checked"
    /\ Len(df) = 2
    /\ df[1].timestamp # NaT /\ df[2].timestamp # NaT
    /\ df[1].timestamp > df[2].timestamp
    /\ \A k \in 1 .. 2 :
          \E j \in 1 .. Len(alarms) :
              /\ alarms[j].type = "temperature"
              /\ alarms[j].timestamp = df[k].timestamp
              /\ alarms[j].value = df[k].temperature

\* the bounds configured for orbital element p, and whether value v is
\* outside them; a bound that is not configured excludes nothing
ElementBounds(p) ==
    IF "orbit_parameters" \in DOMAIN thresholds /\ p \in DOMAIN thresholds.orbit_parameters
    THEN thresholds.orbit_parameters[p]
    ELSE EmptyDict

BelowMin(p, v) == "min" \in DOMAIN ElementBounds(p) /\ v # NaN /\ v < ElementBounds(p).min
AboveMax(p, v) == "max" \in DOMAIN ElementBounds(p) /\ v # NaN /\ v > ElementBounds(p).max

\* the records of alarms for element p that carry timestamp t and value v
ElementRecords(p, t, v) ==
    { k \in 1 .. Len(alarms) :
        alarms[k].type = OrbitType(p) /\ alarms[k].timestamp = t /\ alarms[k].value = v }

\* C26: for each orbital element of each sample the evaluator produces at
\* most one record, always of level 'alarm' and never 'warning': one when the
\* value is below the configured min or above the configured max, and none
\* when the element has no configured bounds; a bound that is not configured
\* is never compared against.
C26_OrbitElementsAlarmTierOnly ==
    pc = "checked" =>
        \A q \in 1 .. Len(OrbitParams) :
            LET p == OrbitParams[q]
            IN  /\ \A k \in 1 .. Len(df) :
                      LET t == df[k].timestamp
                          v == df[k][p]
                      IN  Cardinality(ElementRecords(p, t, v)) =
                              IF BelowMin(p, v) \/ AboveMax(p, v)
                              THEN SamplesWith(p, t, v) ELSE 0
                /\ \A k \in 1 .. Len(alarms) :
                      alarms[k].type = OrbitType(p) =>
                          /\ alarms[k].level = "alarm"
                          /\ \E j \in 1 .. Len(df) :
                                df[j].timestamp = alarms[k].timestamp
                                /\ df[j][p] = alarms[k].value
                          /\ alarms[k].message.text = "too_low"
                                => alarms[k].message.limit = Some(ElementBounds(p).min)
                          /\ alarms[k].message.text = "too_high"
                                => alarms[k].message.limit = Some(ElementBounds(p).max)

\* one sample whose a is below its min and whose e, which has a max and no
\* min configured, is above the max; i has no bounds: one alarm for a, one
\* for e, none for i
C26_Witness ==
    /\ pc = "checked"
    /\ Len(df) = 1
    /\ DOMAIN ElementBounds("e") = {"max"}
    /\ DOMAIN ElementBounds("i") = {}
    /\ BelowMin("a", df[1].a)
    /\ AboveMax("e", df[1].e)
    /\ df[1].i # NaN
    /\ Cardinality({k \in 1 .. Len(alarms) : alarms[k].type = "orbit_a"}) = 1
    /\ Cardinality({k \in 1 .. Len(alarms) : alarms[k].type = "orbit_e"}) = 1
    /\ \A k \in 1 .. Len(alarms) :
          alarms[k].type \in {"orbit_a", "orbit_e"} => alarms[k].level = "alarm"
    /\ \A k \in 1 .. Len(alarms) : alarms[k].type # "orbit_i"

-----------------------------------------------------------------------------
(* SpecConfig: constructing a DataChecker *)

\* what DataChecker(thresholds_file) is given: the argument is a str (the
\* annotated type, and the default "config/thresholds.yaml") or a
\* pathlib.Path; the file it names is missing, is not YAML, or holds a mapping
ConfigFiles ==
    { [arg |-> a, state |-> st, content |-> EmptyDict] :
        a \in {"str", "Path"}, st \in {"missing", "malformed"} }
    \cup { [arg |-> a, state |-> "ok", content |-> c] : a \in {"str", "Path"}, c \in Configs }

\* DataChecker.load_thresholds: the thresholds returned, or the exception
\* that leaves it.  self.thresholds_file.exists() is a method of Path; on a
\* str the attribute lookup raises AttributeError, which the last handler
\* logs and re-raises.
load_thresholds(file) ==
    IF file.arg = "str"
    THEN [status |-> "raised", error |-> "AttributeError", thresholds |-> EmptyDict]
    ELSE IF file.state = "missing"
    THEN [status |-> "raised", error |-> "FileNotFoundError", thresholds |-> EmptyDict]
    ELSE IF file.state = "malformed"
    THEN [status |-> "raised", error |-> "YAMLError", thresholds |-> EmptyDict]
    ELSE [status |-> "constructed", error |-> "none", thresholds |-> file.content]

InitConfig ==
    /\ IdleGui
    /\ pc = "start"
    /\ config_file \in ConfigFiles
    /\ checker = NoChecker
    /\ IdleCheck /\ IdleLoad /\ IdleCycle /\ IdleReport /\ IdleStage

\* DataChecker.__init__: self.thresholds = self.load_thresholds()
ConstructChecker ==
    /\ pc = "start"
    /\ checker' = load_thresholds(config_file)
    /\ pc' = "done"
    /\ UNCHANGED <<gui, config_file, checkVars, loadVars, cycleVars, reportVars, stageVars>>

NextConfig == ConstructChecker

SpecConfig == InitConfig /\ [][NextConfig]_vars

\* C9: constructing a DataChecker raises exactly when the threshold file is
\* missing or malformed; with a present, well-formed file the checker is
\* constructed and holds the thresholds of the file.
C9_ConstructionFailsOnlyOnBadFile ==
    pc = "done" =>
        /\ checker.status = "raised" <=> config_file.state \in {"missing", "malformed"}
        /\ config_file.state = "ok" =>
              checker.status = "constructed" /\ checker.thresholds = config_file.content

-----------------------------------------------------------------------------
(* core/data_loader.py *)

RECURSIVE Sum(_)
Sum(s) == IF s = << >> THEN 0 ELSE Head(s) + Sum(Tail(s))
Least(S) == CHOOSE x \in S : \A y \in S : x <= y
Greatest(S) == CHOOSE x \in S : \A y \in S : x >= y

MaxRawRows == 3         \* rows of a CSV file

MsPerMinute == 60000

\* The text of a timestamp cell.  "iso" is the text
\* "2026-01-01 HH:MM:00+ZZ:00" of the local time `local` (minutes after
\* midnight) at UTC offset `off` (hours); "pending" and "unknown" are texts
\* that are no date.
RawStamps ==
    { [text |-> "iso", local |-> l, off |-> o] : l \in {60, 120, 180}, o \in {0, 1} }
    \cup { [text |-> "pending", local |-> 0, off |-> 0], [text |-> "unknown", local |-> 0, off |-> 0] }

PlainReadings ==
    { r \in Readings : r.temperature \in {250, 450} }

RawRows == { Row(t, r) : t \in RawStamps, r \in PlainReadings }

\* DataLoader.EXPECTED_COLUMNS
ExpectedColumns ==
    << "timestamp", "temperature", "battery_voltage", "a", "e", "i", "raan", "argp",
       "mean_anomaly" >>

ExpectedSet == {ExpectedColumns[k] : k \in 1 .. Len(ExpectedColumns)}

\* A column label of a file, after load_csv has stripped blanks and quotes.
\* name is the label without spaces and underscores, in lower case, written
\* as the expected column that normalises to the same text (or a name of its
\* own for a column that is not expected); form tells how the label is
\* spelled: "exact" is the expected spelling itself, "case" differs from it in
\* the case of letters only ('Temperature'), "spaced" differs in spaces or
\* underscores as well ('Battery Voltage').
Exact(name) == [name |-> name, form |-> "exact"]

\* expected_col.lower() == actual_col.lower()
LowerMatch(expected, actual) ==
    actual.name = expected /\ actual.form \in {"exact", "case"}

\* ... or expected_col.replace('_', '').lower()
\*          == actual_col.replace(' ', '').replace('_', '').lower()
LooseMatch(expected, actual) ==
    LowerMatch(expected, actual) \/ (actual.name = expected /\ actual.form = "spaced")

\* [col for col in EXPECTED_COLUMNS if col not in df.columns]
MissingCols(header) ==
    { c \in ExpectedSet : \A p \in 1 .. Len(header) : header[p] # Exact(c) }

\* the first column of the header that matches expected column c, 0 if none
FirstMatch(header, c, loose) ==
    LET hits == { p \in 1 .. Len(header) :
                    IF loose THEN LooseMatch(c, header[p]) ELSE LowerMatch(c, header[p]) }
    IN  IF hits = {} THEN 0 ELSE Least(hits)

\* df.rename(columns=mapping), the mapping taking the label of the first
\* match of every column of cs to that column: rename acts on labels, so
\* every column carrying a mapped label is renamed
RenameMatches(header, cs, loose) ==
    LET Mapped(l) == { c \in cs : FirstMatch(header, c, loose) # 0
                                  /\ header[FirstMatch(header, c, loose)] = l }
    IN  [p \in 1 .. Len(header) |->
            IF Mapped(header[p]) # {}
            THEN Exact(CHOOSE c \in Mapped(header[p]) : TRUE)
            ELSE header[p]]

\* the header after the two renaming passes of _validate_data: the
\* lower-case pass runs only when no expected column is present
RenamedHeader(header) ==
    LET lowered == IF MissingCols(header) = ExpectedSet
                   THEN RenameMatches(header, ExpectedSet, FALSE)
                   ELSE header
    IN  RenameMatches(lowered, MissingCols(lowered), TRUE)

\* pd.date_range(start='2026-01-01', periods=n, freq='1min')
DateRange(n) == [k \in 1 .. n |-> (k - 1) * MsPerMinute]

\* the columns of df after the missing ones are created: the renamed columns
\* of the file (source is the position in the file), then the created ones
\* (source 0) in the order of EXPECTED_COLUMNS
WithCreated(renamed) ==
    [p \in 1 .. Len(renamed) |-> [label |-> renamed[p], source |-> p]]
    \o [q \in 1 .. Len(SelectSeq(ExpectedColumns, LAMBDA c : c \in MissingCols(renamed))) |->
          [label |-> Exact(SelectSeq(ExpectedColumns, LAMBDA c : c \in MissingCols(renamed))[q]),
           source |-> 0]]

\* existing_columns = [col for col in EXPECTED_COLUMNS if col in df.columns];
\* df = df[existing_columns].  Selecting a label takes every column that
\* carries it.
ExistingColumns(present) ==
    Flatten([q \in 1 .. Len(ExpectedColumns) |->
               SelectSeq(present, LAMBDA col : col.label = Exact(ExpectedColumns[q]))])

\* The column steps of _validate_data on what pd.read_csv returned and
\* load_csv relabelled (a header and, for every row, the cells in header
\* order): the labels of the columns kept, and the rows as cells in that
\* order.  A missing timestamp column is created with date_range, any other
\* missing column with nan.
normalize_columns(table) ==
    LET renamed == RenamedHeader(table.header)
        kept == ExistingColumns(WithCreated(renamed))
        n == Len(table.cells)
    IN  [columns |-> [q \in 1 .. Len(kept) |-> kept[q].label.name],
         synthesized |-> "timestamp" \in MissingCols(renamed),
         rows |-> [k \in 1 .. n |->
                     [q \in 1 .. Len(kept) |->
                        IF kept[q].source # 0 THEN table.cells[k][kept[q].source]
                        ELSE IF kept[q].label.name = "timestamp" THEN DateRange(n)[k]
                        ELSE NaN]]]

\* what pd.read_csv returns for a file with the expected header, with or
\* without its timestamp column, and the given rows
RawTable(has_timestamp, rows) ==
    LET header == SelectSeq([q \in 1 .. Len(ExpectedColumns) |-> Exact(ExpectedColumns[q])],
                            LAMBDA l : has_timestamp \/ l.name # "timestamp")
    IN  [header |-> header,
         cells |-> [k \in 1 .. Len(rows) |->
                      [q \in 1 .. Len(header) |-> rows[k][header[q].name]]]]

\* files with the expected header
StampTables ==
    { RawTable(TRUE, rs) : rs \in UNION { [1 .. k -> RawRows] : k \in 0 .. MaxRawRows } }
    \cup
    { RawTable(FALSE, rs) :
        rs \in UNION { [1 .. k -> { Row(0, r) : r \in PlainReadings }] : k \in 0 .. MaxRawRows } }

\* pd.to_datetime(text, errors='coerce', utc=True): the instant in
\* milliseconds after 2026-01-01T00:00Z, NaT for a text that is no date
ParseTimestamp(x) ==
    IF x.text = "iso" THEN (x.local - 60 * x.off) * MsPerMinute ELSE NaT

WithTimestamp(row, t) == [row EXCEPT !.timestamp = t]

\* Series.duplicated(keep=False): the rows whose value occurs more than once
Duplicated(rows) ==
    { k \in 1 .. Len(rows) : \E j \in 1 .. Len(rows) : j # k /\ rows[j].timestamp = rows[k].timestamp }

\* _validate_data's duplicate step on a datetime column: every duplicated row
\* gets idx * 0.001 s added, idx being its 0-based index label
OffsetDuplicates(rows) ==
    [k \in 1 .. Len(rows) |->
        IF k \in Duplicated(rows) /\ rows[k].timestamp # NaT
        THEN WithTimestamp(rows[k], rows[k].timestamp + (k - 1))
        ELSE rows[k]]

\* the rows of a table that has the nine expected columns, as records
AsRecords(table) ==
    [k \in 1 .. Len(table.rows) |->
        [c \in ExpectedSet |->
            table.rows[k][CHOOSE q \in 1 .. Len(table.columns) : table.columns[q] = c]]]

\* DataLoader._validate_data on a file with the expected header: the
\* validated table, or the exception.  A missing timestamp column is
\* synthesized as datetimes; a column read from the file is text at this
\* point (load_csv parses it afterwards), and text + Timedelta raises
\* TypeError in the duplicate step.
validate_data(table) ==
    LET columned == normalize_columns(table)
        rows == AsRecords(columned)
    IN  IF columned.synthesized
        THEN LET deduped == IF Duplicated(rows) # {} THEN OffsetDuplicates(rows) ELSE rows
             IN  [status |-> "ok", kind |-> "datetime", rows |-> SortRows(deduped, "datetime")]
        ELSE IF Duplicated(rows) # {}
        THEN [status |-> "TypeError", kind |-> "text", rows |-> << >>]
        ELSE [status |-> "ok", kind |-> "text", rows |-> SortRows(rows, "text")]

\* load_csv's parse step: df['timestamp'] = pd.to_datetime(..., utc=True)
parse_dates(validated) ==
    IF validated.kind = "text"
    THEN [k \in 1 .. Len(validated.rows) |->
            WithTimestamp(validated.rows[k], ParseTimestamp(validated.rows[k].timestamp))]
    ELSE validated.rows

\* a quotient with a positive denominator; a zero quotient is 0 / 1
Quotient(num, den) ==
    IF num = 0 THEN [num |-> 0, den |-> 1]
    ELSE IF den < 0 THEN [num |-> -num, den |-> -den]
    ELSE [num |-> num, den |-> den]

\* the whole part of the square root of x, between low and high
RECURSIVE ISqrt(_, _, _)
ISqrt(x, low, high) ==
    IF low >= high THEN low
    ELSE LET mid == (low + high + 1) \div 2
         IN  IF mid * mid <= x THEN ISqrt(x, mid, high) ELSE ISqrt(x, low, mid - 1)

EarthRadius == 6371

\* df['a'] - 6371, in km (a is in hundreds of km)
Altitude(a) == IF a = NaN THEN NaN ELSE 100 * a - EarthRadius

\* 2 * pi * sqrt(a ** 3 / (G * M_earth)) in whole seconds: for a in hundreds
\* of km, 4 * pi^2 * 10^6 / (G * M_earth) is 99 to two digits
OrbitPeriod(a) == IF a = NaN THEN NaN ELSE ISqrt(99 * a * a * a, 0, 46340)

\* df['timestamp'].diff().dt.total_seconds() of row k, in ms: missing for
\* the first row and next to a missing timestamp
TimeDiff(rows, k) ==
    IF k = 1 THEN NaN
    ELSE IF rows[k].timestamp = NaT \/ rows[k - 1].timestamp = NaT THEN NaN
    ELSE rows[k].timestamp - rows[k - 1].timestamp

\* valid_time_diff = time_diff != 0, which a missing difference satisfies
ValidTimeDiff(rows, k) == TimeDiff(rows, k) # 0

\* the row before row k in df.loc[valid_time_diff], 0 if k is its first row
ValidRowBefore(rows, k) ==
    LET earlier == { j \in 1 .. k - 1 : ValidTimeDiff(rows, j) }
    IN  IF earlier = {} THEN 0 ELSE Greatest(earlier)

\* df.loc[valid_time_diff, col].diff() at row k
MaskedDiff(rows, col, k) ==
    LET j == ValidRowBefore(rows, k)
    IN  IF j = 0 THEN NaN
        ELSE IF rows[k][col] = NaN \/ rows[j][col] = NaN THEN NaN
        ELSE rows[k][col] - rows[j][col]

\* the change rate of column col at row k, per ms: nan where the time
\* difference is 0, the masked difference over the time difference
\* elsewhere, and 0 in place of every nan (fillna(0))
ChangeRate(rows, col, k) ==
    IF ~ValidTimeDiff(rows, k) THEN Quotient(0, 1)
    ELSE IF MaskedDiff(rows, col, k) = NaN \/ TimeDiff(rows, k) = NaN THEN Quotient(0, 1)
    ELSE Quotient(MaskedDiff(rows, col, k), TimeDiff(rows, k))

\* DataLoader._calculate_derived_features on a table that has the expected
\* columns: altitude, orbit_period and the two change rates (the hour,
\* minute, day_of_week and is_night columns are not modelled)
calculate_derived_features(rows) ==
    [k \in 1 .. Len(rows) |->
        [c \in ExpectedSet \cup {"altitude", "orbit_period", "temp_change_rate",
                                 "voltage_change_rate"} |->
            IF c = "altitude" THEN Altitude(rows[k].a)
            ELSE IF c = "orbit_period" THEN OrbitPeriod(rows[k].a)
            ELSE IF c = "temp_change_rate" THEN ChangeRate(rows, "temperature", k)
            ELSE IF c = "voltage_change_rate" THEN ChangeRate(rows, "battery_voltage", k)
            ELSE rows[k][c]]]

\* DataLoader._preprocess_data: the casts keep the values, reset_index keeps
\* the row order
preprocess_data(rows) == calculate_derived_features(rows)

\* a file of no bytes: pd.read_csv raises EmptyDataError for it
EmptyFile == [header |-> << >>, cells |-> << >>]

\* the end of load_csv: what is returned and kept in self.data
Returned(parsed) ==
    [status |-> "returned", error |-> "none", data |-> Some(parsed),
     current_file |-> Some("file"), returned |-> parsed]

\* load_csv after _validate_data: the exception is logged and raised again,
\* or the dates are parsed and the table is preprocessed
Validated(self, validated) ==
    IF validated.status # "ok"
    THEN [self EXCEPT !.status = "raised", !.error = validated.status]
    ELSE Returned(preprocess_data(parse_dates(validated)))

\* DataLoader.load_csv(file, validate=True, parse_dates=True) on an existing
\* file: the loader's state after the call.  self.data and self.current_file
\* are assigned after every step that can raise.
load_csv(self, table) ==
    IF table = EmptyFile
    THEN [self EXCEPT !.status = "raised", !.error = "EmptyDataError"]
    ELSE Validated(self, validate_data(table))

InitLoad ==
    /\ IdleGui
    /\ pc = "start"
    /\ raw \in StampTables
    /\ loader = NoLoader
    /\ normalized = << >>
    /\ files = << >>
    /\ IdleCheck /\ IdleConfig /\ IdleCycle /\ IdleReport /\ IdleStage

LoadCsv ==
    /\ pc = "start"
    /\ loader' = load_csv(loader, raw)
    /\ pc' = "done"
    /\ UNCHANGED <<gui, raw, normalized, files, checkVars, configVars, cycleVars, reportVars, stageVars>>

NextLoad == LoadCsv

SpecLoad == InitLoad /\ [][NextLoad]_vars

\* C1: the table load_csv returns has timestamps that are strictly ascending
\* in row order and pairwise distinct.
C1_LoadedTimestampsStrictlyAscending ==
    loader.status = "returned" =>
        LET t == loader.returned
        IN  /\ \A k \in 1 .. Len(t) - 1 :
                  /\ t[k].timestamp # NaT
                  /\ t[k + 1].timestamp # NaT
                  /\ t[k].timestamp < t[k + 1].timestamp
            /\ \A j, k \in 1 .. Len(t) : j # k => t[j].timestamp # t[k].timestamp

\* the rows of the loaded table, and the rate the claim gives row k of them
ImmediateRate(rows, col, k) ==
    IF k = 1 THEN Quotient(0, 1)
    ELSE IF rows[k].timestamp = rows[k - 1].timestamp THEN Quotient(0, 1)
    ELSE Quotient(rows[k][col] - rows[k - 1][col], rows[k].timestamp - rows[k - 1].timestamp)

\* a loaded table none of whose timestamps and measured values is missing
NothingMissing(rows) ==
    \A k \in 1 .. Len(rows) :
        /\ rows[k].timestamp # NaT
        /\ rows[k].temperature # NaN
        /\ rows[k].battery_voltage # NaN

\* C22: in the loaded table the change rates of temperature and
\* battery_voltage of row k >= 1 are (value[k] - value[k-1]) / (t[k] - t[k-1])
\* against the row immediately before whenever t[k] # t[k-1], and 0 when
\* t[k] = t[k-1]; the first row's rate is 0 and no rate is missing.
C22_ChangeRateAgainstPrecedingRow ==
    (loader.status = "returned" /\ NothingMissing(loader.returned)) =>
        LET t == loader.returned
        IN  \A k \in 1 .. Len(t) :
               /\ t[k].temp_change_rate = ImmediateRate(t, "temperature", k)
               /\ t[k].voltage_change_rate = ImmediateRate(t, "battery_voltage", k)
               /\ t[k].temp_change_rate \in [num : Int, den : Nat \ {0}]
               /\ t[k].voltage_change_rate \in [num : Int, den : Nat \ {0}]

\* no row of the loaded table has the instant of the row before it
NoRepeatedInstant(rows) ==
    \A k \in 2 .. Len(rows) : rows[k].timestamp # rows[k - 1].timestamp

\* the same for the tables in which consecutive rows differ in time
C22_WithoutRepeatedInstants ==
    (loader.status = "returned" /\ NoRepeatedInstant(loader.returned))
        => C22_ChangeRateAgainstPrecedingRow

\* the table as the duplicate step of _validate_data finds it
BeforeDuplicateStep == AsRecords(normalize_columns(raw))

\* C15: the duplicate step of _validate_data changes only the rows whose
\* timestamp occurs more than once: such a row has its timestamp increased
\* by its row index times one millisecond, every other row is kept as it is,
\* and afterwards no two rows share a timestamp.
C15_OnlyDuplicatesAreOffset ==
    pc = "done" =>
        LET before == BeforeDuplicateStep
            after == validate_data(raw)
        IN  /\ after.status = "ok"
            /\ loader.status = "returned"
            /\ Len(after.rows) = Len(before)
            /\ \A k \in 1 .. Len(before) :
                  \E j \in 1 .. Len(after.rows) :
                      after.rows[j] =
                          IF k \in Duplicated(before)
                          THEN WithTimestamp(before[k], before[k].timestamp + (k - 1))
                          ELSE before[k]
            /\ \A j, k \in 1 .. Len(after.rows) :
                  j # k => after.rows[j].timestamp # after.rows[k].timestamp

\* the same for the files in which no timestamp occurs twice
C15_WithoutDuplicates ==
    Duplicated(BeforeDuplicateStep) = {} => C15_OnlyDuplicatesAreOffset

(***************************************************************************)
(* DataLoader.load_all_csvs                                                *)
(***************************************************************************)

MaxFiles == 2           \* CSV files in the data directory
MaxFileRows == 2        \* rows of one of them

BatchStamps ==
    { [text |-> "iso", local |-> 60, off |-> 0], [text |-> "iso", local |-> 120, off |-> 0],
      [text |-> "unknown", local |-> 0, off |-> 0] }

BatchTables ==
    { RawTable(TRUE, rs) :
        rs \in UNION { [1 .. k -> { Row(t, NominalReading) : t \in BatchStamps }] :
                         k \in 0 .. MaxFileRows } }
    \cup
    { RawTable(FALSE, rs) :
        rs \in UNION { [1 .. k -> { Row(0, NominalReading) }] : k \in 0 .. MaxFileRows } }
    \cup { EmptyFile }

\* the directory listing, in the order glob yields it
Directories == UNION { [1 .. k -> BatchTables] : k \in 0 .. MaxFiles }

\* all_data.append(df) on the way back from the rest of the loop
Appended(returned, rest) ==
    [self |-> rest.self, all_data |-> <<returned>> \o rest.all_data]

\* the loop over csv_files: the loader after the last load_csv that ran, and
\* the tables appended to all_data; LoadNext is the loop after the load_csv
\* of one file, which ends it if that raised
RECURSIVE LoadEach(_, _)
RECURSIVE LoadNext(_, _)
LoadNext(one, tables) ==
    IF one.status = "raised"
    THEN [self |-> one, all_data |-> << >>]
    ELSE Appended(one.returned, LoadEach(one, tables))

LoadEach(self, tables) ==
    IF tables = << >>
    THEN [self |-> self, all_data |-> << >>]
    ELSE LoadNext(load_csv(self, Head(tables)), Tail(tables))

\* pd.concat(all_data, ignore_index=True), sort_values('timestamp') and
\* self.data = combined_df, unless a load_csv raised
Combined(each) ==
    IF each.self.status = "raised"
    THEN each.self
    ELSE [each.self EXCEPT !.data = Some(SortRows(Flatten(each.all_data), "datetime")),
                           !.returned = SortRows(Flatten(each.all_data), "datetime")]

\* DataLoader.load_all_csvs(): the loader's state after the call
load_all_csvs(self, tables) ==
    IF tables = << >>
    THEN [self EXCEPT !.status = "returned", !.returned = << >>]
    ELSE Combined(LoadEach(self, tables))

InitBatch ==
    /\ IdleGui
    /\ pc = "start"
    /\ files \in Directories
    /\ raw = << >>
    /\ loader = NoLoader
    /\ normalized = << >>
    /\ IdleCheck /\ IdleConfig /\ IdleCycle /\ IdleReport /\ IdleStage

LoadAllCsvs ==
    /\ pc = "start"
    /\ loader' = load_all_csvs(loader, files)
    /\ pc' = "done"
    /\ UNCHANGED <<gui, raw, normalized, files, checkVars, configVars, cycleVars, reportVars, stageVars>>

NextBatch == LoadAllCsvs

SpecBatch == InitBatch /\ [][NextBatch]_vars

\* the rows of all the files together
RowsOfFiles == Sum([k \in 1 .. Len(files) |-> Len(files[k].cells)])

\* C16: load_all_csvs returns the rows of all the files, as many as the files
\* have together, with timestamps that do not decrease in row order (rows
\* without a timestamp aside); the files are files pd.read_csv can read.
C16_BatchIsSortedConcatenation ==
    (pc = "done" /\ \A f \in 1 .. Len(files) : files[f] # EmptyFile) =>
        /\ loader.status = "returned"
        /\ Len(loader.returned) = RowsOfFiles
        /\ \A k \in 1 .. Len(loader.returned) - 1 :
              LET t == loader.returned[k].timestamp
                  u == loader.returned[k + 1].timestamp
              IN  (t # NaT /\ u # NaT) => t <= u

\* no file of the directory has a timestamp twice
NoFileHasDuplicates ==
    \A k \in 1 .. Len(files) :
        files[k] # EmptyFile /\ Duplicated(AsRecords(normalize_columns(files[k]))) = {}

C16_WithoutDuplicates == NoFileHasDuplicates => C16_BatchIsSortedConcatenation

\* C29: a failed load leaves the loader's state untouched: when load_csv
\* raises, DataLoader.data and DataLoader.current_file keep the values they
\* had before the call, and when load_all_csvs raises while loading one of
\* several files, DataLoader.data is the value it had before the call (here
\* None, the value of a new loader).
C29_FailedLoadLeavesLoaderUntouched ==
    (pc = "done" /\ loader.status = "raised") => loader.data = None

\* the files load_all_csvs loaded before the one that raised
LoadedBeforeFailure ==
    { k \in 1 .. Len(files) :
        \A j \in 1 .. k : load_csv(NoLoader, files[j]).status = "returned" }

\* what the code does: after a failed load_all_csvs the loader holds the
\* table and the name of the last file that loaded, and what it held before
\* the call if the first file failed
C29_LastLoadedFileIsKept ==
    (pc = "done" /\ loader.status = "raised") =>
        IF LoadedBeforeFailure = {}
        THEN loader.data = None /\ loader.current_file = None
        ELSE /\ loader.data
                   = load_csv(NoLoader, files[Greatest(LoadedBeforeFailure)]).data
             /\ loader.current_file = Some("file")

(***************************************************************************)
(* The column steps of _validate_data on files with other headers.         *)
(***************************************************************************)

MaxColumnRows == 1      \* rows of a file with a varied header

\* the spellings under which one expected column occurs in a header, in
\* file order.  pd.read_csv keeps labels distinct, but load_csv strips blanks
\* and quotes from them afterwards, so 'temperature' and ' temperature' of one
\* file are the same label twice when _validate_data runs.
Spellings ==
    { << >>, <<"exact">>, <<"case">>, <<"spaced">>, <<"case", "spaced">>,
      <<"spaced", "case">>, <<"exact", "exact">> }

Labels(name, forms) == [q \in 1 .. Len(forms) |-> [name |-> name, form |-> forms[q]]]

Reversed(seq) == [q \in 1 .. Len(seq) |-> seq[Len(seq) + 1 - q]]

\* headers: timestamp, temperature and battery_voltage under any spellings,
\* the orbit columns all exact, all in another case or all absent, with or
\* without a column that is not expected, in file order or reversed
Headers ==
    { IF backwards THEN Reversed(h) ELSE h :
        backwards \in BOOLEAN,
        h \in { Labels("timestamp", ts) \o Labels("temperature", tp)
                \o Labels("battery_voltage", bv)
                \o Flatten([q \in 1 .. 6 |-> Labels(ExpectedColumns[q + 3], orbit)])
                \o Labels("altitude", extra) :
                  ts \in Spellings, tp \in Spellings, bv \in Spellings,
                  orbit \in {<< >>, <<"exact">>, <<"case">>},
                  extra \in {<< >>, <<"exact">>} } }

\* the cell of row k under the column at position p of the file
Cell(k, p) == 100 * p + k

ColumnTables ==
    { [header |-> h, cells |-> [k \in 1 .. n |-> [p \in 1 .. Len(h) |-> Cell(k, p)]]] :
        h \in Headers, n \in 0 .. MaxColumnRows }

InitColumns ==
    /\ IdleGui
    /\ pc = "start"
    /\ raw \in ColumnTables
    /\ loader = NoLoader
    /\ normalized = << >>
    /\ files = << >>
    /\ IdleCheck /\ IdleConfig /\ IdleCycle /\ IdleReport /\ IdleStage

\* _validate_data up to df = df[existing_columns]
NormalizeColumns ==
    /\ pc = "start"
    /\ normalized' = normalize_columns(raw)
    /\ pc' = "done"
    /\ UNCHANGED <<gui, raw, loader, files, checkVars, configVars, cycleVars, reportVars, stageVars>>

NextColumns == NormalizeColumns

SpecColumns == InitColumns /\ [][NextColumns]_vars

\* the columns of the file whose label matches expected column c
Matching(c) == { p \in 1 .. Len(raw.header) : LooseMatch(c, raw.header[p]) }

\* column q of the normalized table holds the cells of column p of the file
TakenFrom(q, p) ==
    \A k \in 1 .. Len(raw.cells) : normalized.rows[k][q] = raw.cells[k][p]

\* C14: after the column steps of _validate_data the columns are exactly the
\* nine expected columns in canonical order; an expected column holds the
\* cells of a file column whose label matches it (of the exactly spelled one
\* if there is one), a timestamp column with no match is the one-minute
\* series starting 2026-01-01 with one instant per row, and any other column
\* with no match is all missing values.
C14_NineColumnsInCanonicalOrder ==
    pc = "done" =>
        /\ normalized.columns = ExpectedColumns
        /\ Len(normalized.rows) = Len(raw.cells)
        /\ \A q \in 1 .. Len(ExpectedColumns) :
              LET c == ExpectedColumns[q]
              IN  IF Matching(c) # {}
                  THEN \E p \in Matching(c) :
                          /\ TakenFrom(q, p)
                          /\ (\E x \in Matching(c) : raw.header[x] = Exact(c))
                                => raw.header[p] = Exact(c)
                  ELSE \A k \in 1 .. Len(raw.cells) :
                          normalized.rows[k][q] =
                              IF c = "timestamp" THEN (k - 1) * MsPerMinute ELSE NaN

\* the labels of the file are pairwise distinct
DistinctLabels ==
    \A p, x \in 1 .. Len(raw.header) : p # x => raw.header[p] # raw.header[x]

C14_ForDistinctLabels == DistinctLabels => C14_NineColumnsInCanonicalOrder


-----------------------------------------------------------------------------
(* core/data_analysis.py: calculate_statistics *)

NumericColumns ==
    {"temperature", "battery_voltage", "a", "e", "i", "raan", "argp", "mean_anomaly"}

\* df[col].dropna()
ColumnData(table, col) ==
    SelectSeq([k \in 1 .. Len(table) |-> table[k][col]], LAMBDA v : v # NaN)

\* The statistics of one column.  mean is total / count and the sample
\* variance (std squared, ddof = 1) is var_num / var_den, a missing value when
\* var_den = 0; the quotients are left unevaluated so that no rounding enters.
\* The quantiles, skewness and kurtosis of the source are not modelled.
Describe(data, all) ==
    [count |-> Len(data),
     total |-> Sum(data),
     var_num |-> Len(data) * Sum([k \in 1 .. Len(data) |-> data[k] * data[k]])
                    - Sum(data) * Sum(data),
     var_den |-> Len(data) * (Len(data) - 1),
     min |-> Least({data[k] : k \in 1 .. Len(data)}),
     max |-> Greatest({data[k] : k \in 1 .. Len(data)}),
     missing |-> Len(all) - Len(data)]

\* calculate_statistics(df): one entry per numeric column that has a value
\* (the time_intervals and correlations entries are not modelled)
calculate_statistics(table) ==
    IF table = << >> THEN EmptyDict
    ELSE [col \in {c \in NumericColumns : ColumnData(table, c) # << >>} |->
            Describe(ColumnData(table, col), table)]

\* the column a record type reports on
ColumnOfType(type) ==
    IF type \in {"temperature", "battery_voltage"} THEN type
    ELSE CHOOSE p \in {OrbitParams[q] : q \in 1 .. Len(OrbitParams)} : OrbitType(p) = type

\* C28: a missing (nan) temperature, battery_voltage or orbital-element value
\* never produces an alarm record, whatever the configured bands are: every
\* record carries a value that is not missing, and the records of a parameter
\* are at most as many as the samples that have a value of it, so the alarms
\* of a table are at most as many as its non-missing (sample, parameter)
\* values among the eight checked parameters.
C28_MissingValuesRaiseNoAlarm ==
    pc = "checked" =>
        /\ \A k \in 1 .. Len(alarms) :
              /\ alarms[k].value # NaN
              /\ \E j \in 1 .. Len(df) :
                    /\ df[j].timestamp = alarms[k].timestamp
                    /\ df[j][ColumnOfType(alarms[k].type)] = alarms[k].value
        /\ \A c \in NumericColumns :
              Cardinality({k \in 1 .. Len(alarms) : ColumnOfType(alarms[k].type) = c})
                  <= Len(ColumnData(df, c))
        /\ Len(alarms) <= Sum([q \in 1 .. Len(ExpectedColumns) |->
                                 IF ExpectedColumns[q] = "timestamp" THEN 0
                                 ELSE Len(ColumnData(df, ExpectedColumns[q]))])

\* two samples, one without a temperature and a voltage and one without a
\* semi-major axis, checked against bands for all three: the missing values
\* have no record, while other values of the table have
C28_Witness ==
    /\ pc = "checked"
    /\ Len(df) = 2
    /\ df[1].temperature = NaN /\ df[1].battery_voltage = NaN
    /\ df[2].a = NaN
    /\ df[1].timestamp # df[2].timestamp
    /\ DOMAIN Get(thresholds, "temperature", EmptyDict) # {}
    /\ DOMAIN Get(thresholds, "battery_voltage", EmptyDict) # {}
    /\ "min" \in DOMAIN ElementBounds("a")
    /\ alarms # << >>
    /\ \A k \in 1 .. Len(alarms) :
          /\ alarms[k].timestamp = df[1].timestamp
                => alarms[k].type \notin {"temperature", "battery_voltage"}
          /\ alarms[k].timestamp = df[2].timestamp => alarms[k].type # "orbit_a"

-----------------------------------------------------------------------------
(* core/data_report.py: generate_cycle_report *)

MaxCycleRows == 95      \* rows of a table split into cycles
MaxCycleSize == 10      \* cycle_size 1..MaxCycleSize

\* the names core/data_checker.py binds at module level
DataCheckerNames ==
    {"yaml", "pd", "Path", "Dict", "List", "Any", "Optional", "Logger", "DataChecker"}

\* from core.data_checker import check_all_thresholds
ImportCheckAllThresholds ==
    IF "check_all_thresholds" \in DataCheckerNames THEN "imported" ELSE "ImportError"

\* strftime('%Y-%m-%d %H:%M:%S'): the instant cut to whole seconds
FormatSeconds(t) == t \div 1000

\* the timestamp_range entry of a report: empty when no row has a timestamp
TimestampRange(rows) ==
    LET timestamps == {rows[k].timestamp : k \in 1 .. Len(rows)} \ {NaT}
    IN  IF timestamps = {} THEN EmptyDict
        ELSE [start |-> FormatSeconds(Least(timestamps)),
              end |-> FormatSeconds(Greatest(timestamps)),
              duration |-> Greatest(timestamps) - Least(timestamps)]

\* a variant of total_cycles that rounds down
TotalCyclesFloor(n, c) == n \div c

\* total_cycles = (len(df) + cycle_size - 1) // cycle_size
TotalCycles(n, c) == (n + c - 1) \div c

Smaller(x, y) == IF x < y THEN x ELSE y

\* a cycle whose slice takes the row at its end index as well
CycleReportInclusiveEnd(sorted, cycle_num, c) ==
    LET start_idx == cycle_num * c
        end_idx == Smaller((cycle_num + 1) * c + 1, Len(sorted))
        cycle_df == SubSeq(sorted, start_idx + 1, end_idx)
        found == IF ImportCheckAllThresholds = "ImportError" THEN << >>
                 ELSE check_all_thresholds(thresholds, cycle_df)
    IN  [cycle_number |-> cycle_num + 1,
         data_range |-> << start_idx + 1, end_idx >>,
         total_records |-> Len(cycle_df),
         timestamp_range |-> TimestampRange(cycle_df),
         statistics |-> calculate_statistics(cycle_df),
         alarm_count |-> Len(found),
         alarms |-> SubSeq(found, 1, Smaller(5, Len(found)))]

\* the report of cycle cycle_num (0-based) of the sorted table; the
\* temperature_trend, outlier_count and summary text entries are not modelled
CycleReport(sorted, cycle_num, c) ==
    LET start_idx == cycle_num * c
        end_idx == Smaller((cycle_num + 1) * c, Len(sorted))
        cycle_df == SubSeq(sorted, start_idx + 1, end_idx)
        found == IF ImportCheckAllThresholds = "ImportError" THEN << >>
                 ELSE check_all_thresholds(thresholds, cycle_df)
    IN  [cycle_number |-> cycle_num + 1,
         data_range |-> << start_idx + 1, end_idx >>,
         total_records |-> Len(cycle_df),
         timestamp_range |-> TimestampRange(cycle_df),
         statistics |-> calculate_statistics(cycle_df),
         alarm_count |-> Len(found),
         alarms |-> SubSeq(found, 1, Smaller(5, Len(found)))]

\* generate_cycle_report(df, cycle_size): the reports of the non-empty cycles
generate_cycle_report(table, c) ==
    IF table = << >> THEN << >>
    ELSE LET sorted == SortRows(table, "datetime")
             total_cycles == TotalCycles(Len(sorted), c)
         IN  SelectSeq([k \in 1 .. total_cycles |-> CycleReport(sorted, k - 1, c)],
                       LAMBDA report : report.total_records > 0)

\* tables of n nominal samples, one a minute, in file order ascending or
\* descending in time
CycleTables ==
    { [k \in 1 .. n |-> Row((IF up THEN k - 1 ELSE n - k) * MsPerMinute, NominalReading)] :
        n \in 0 .. MaxCycleRows, up \in BOOLEAN }

InitCycle ==
    /\ IdleGui
    /\ pc = "start"
    /\ df \in CycleTables
    /\ cycle_size \in 1 .. MaxCycleSize
    /\ cycle_reports = << >>
    /\ thresholds = EmptyDict /\ alarms = << >>
    /\ IdleConfig /\ IdleLoad /\ IdleReport /\ IdleStage

GenerateCycleReport ==
    /\ pc = "start"
    /\ cycle_reports' = generate_cycle_report(df, cycle_size)
    /\ pc' = "done"
    /\ UNCHANGED <<gui, df, thresholds, alarms, cycle_size, configVars, loadVars, reportVars, stageVars>>

NextCycle == GenerateCycleReport

SpecCycle == InitCycle /\ [][NextCycle]_vars

\* C6: for a table of N >= 1 rows and cycle_size c >= 1 there are exactly
\* ceil(N / c) cycle reports (the least q with q * c >= N); every cycle but
\* the last has c records and the last has N - c * (q - 1).
C6_CycleCountAndSizes ==
    (pc = "done" /\ Len(df) >= 1) =>
        LET n == Len(df)
            q == CHOOSE x \in 1 .. n : x * cycle_size >= n /\ (x - 1) * cycle_size < n
        IN  /\ Len(cycle_reports) = q
            /\ \A k \in 1 .. q - 1 : cycle_reports[k].total_records = cycle_size
            /\ cycle_reports[q].total_records = n - cycle_size * (q - 1)

\* 95 rows in cycles of 10: 10 reports, the last of 5 rows
C6_Witness ==
    /\ pc = "done"
    /\ Len(df) = 95
    /\ cycle_size = 10
    /\ Len(cycle_reports) = 10
    /\ cycle_reports[10].total_records = 5

\* C27: the cycles of generate_cycle_report partition the time-sorted table:
\* their row ranges are contiguous, pairwise disjoint and cover rows 1..N in
\* order, every cycle is non-empty with at most cycle_size records, cycle
\* numbers run 1, 2, ... without gaps, and the record counts sum to N.  The
\* rows of a cycle are the rows of its range in the table sorted by time:
\* the tables have one sample a minute, so row j of the sorted table is the
\* sample of minute j - 1.
C27_CyclesPartitionSortedTable ==
    pc = "done" =>
        LET n == Len(df)
            q == Len(cycle_reports)
        IN  /\ n = 0 <=> q = 0
            /\ q > 0 => /\ cycle_reports[1].data_range[1] = 1
                        /\ cycle_reports[q].data_range[2] = n
            /\ \A k \in 1 .. q :
                  LET r == cycle_reports[k]
                  IN  /\ r.cycle_number = k
                      /\ r.data_range[1] <= r.data_range[2]
                      /\ r.total_records = r.data_range[2] - r.data_range[1] + 1
                      /\ r.total_records >= 1
                      /\ r.total_records <= cycle_size
                      /\ k < q => cycle_reports[k + 1].data_range[1] = r.data_range[2] + 1
                      /\ r.timestamp_range.start = 60 * (r.data_range[1] - 1)
                      /\ r.timestamp_range.end = 60 * (r.data_range[2] - 1)
            /\ Sum([k \in 1 .. q |-> cycle_reports[k].total_records]) = n

\* 25 rows given in descending order of time, in cycles of 10: the ranges
\* are 1-10, 11-20 and 21-25, and the first cycle starts at minute 0
C27_Witness ==
    /\ pc = "done"
    /\ Len(df) = 25
    /\ df[1].timestamp > df[2].timestamp
    /\ cycle_size = 10
    /\ [k \in 1 .. Len(cycle_reports) |-> cycle_reports[k].data_range]
          = << <<1, 10>>, <<11, 20>>, <<21, 25>> >>
    /\ cycle_reports[1].timestamp_range.start = 0

-----------------------------------------------------------------------------
(* core/data_report.py: create_summary_report *)

MaxReportRows == 2      \* rows of the short tables a summary is made of
MaxClock == 2           \* the wall clock runs over 0..MaxClock seconds

\* detect_outliers skips a column with fewer than 10 values
LongRows == 10

HotReading == CHOOSE r \in Readings : r.temperature = 450
GapReading == CHOOSE r \in Readings : r.temperature = NaN

\* a loaded table: one sample a minute, ascending
Stamped(readings) ==
    [k \in 1 .. Len(readings) |-> Row((k - 1) * MsPerMinute, readings[k])]

ReportTables ==
    { Stamped(rs) : rs \in UNION { [1 .. k -> {NominalReading, HotReading, GapReading}] :
                                     k \in 0 .. MaxReportRows } }
    \cup { Stamped([k \in 1 .. LongRows |-> IF k \in hot THEN HotReading ELSE NominalReading]) :
             hot \in {{}, {3}} }

ReportConfigs ==
    { c \in Configs : /\ DOMAIN c = Categories
                      /\ DOMAIN c.temperature = Bands
                      /\ c.temperature.alarm_max = TempAlarmMax
                      /\ DOMAIN c.battery_voltage = Bands
                      /\ "i" \notin DOMAIN c.orbit_parameters }

\* the stages create_summary_report guards with try / except Exception
AnalysisStages == {"cycles", "statistics", "trend", "outliers", "orbit"}

\* What fit_temperature_trend(df) returns: nothing for fewer than two
\* temperatures; otherwise the direction of the fitted slope, which is left
\* open, and the last temperature.  The coefficients, slope and r_squared of
\* the fit are not modelled.
TrendOutcomes(table, failed) ==
    LET temp_data == ColumnData(table, "temperature")
    IN  IF failed \/ Len(temp_data) < 2 THEN {EmptyDict}
        ELSE { [trend |-> d, current_temperature |-> temp_data[Len(temp_data)]] :
                 d \in {"rising", "steady"} }

\* What detect_outliers(df, method='iqr') returns: nothing when every column
\* has fewer than 10 values; otherwise nothing or a summary entry, the number
\* of outliers being left open
OutlierOutcomes(table, failed) ==
    IF failed \/ \A c \in NumericColumns : Len(ColumnData(table, c)) < LongRows
    THEN {EmptyDict}
    ELSE {EmptyDict} \cup { [summary |-> [total_outliers |-> n]] : n \in {2, 11} }

\* What analyze_orbit_parameters(df) returns: an entry per orbital element
\* that has a value, orbit_period when a has a value, parameter_correlations,
\* and orbit_stability when a has two values, its assessment being left open
OrbitOutcomes(table, failed) ==
    LET a_data == ColumnData(table, "a")
        keys == { p \in {"a", "e", "i", "raan", "argp", "mean_anomaly"} :
                    ColumnData(table, p) # << >> }
                \cup (IF Len(a_data) > 0 THEN {"orbit_period"} ELSE {})
                \cup {"parameter_correlations"}
    IN  IF failed \/ table = << >> THEN {EmptyDict}
        ELSE IF Len(a_data) > 1 /\ Len(table) > 1
        THEN { [k \in keys \cup {"orbit_stability"} |->
                  IF k = "orbit_stability" THEN [stability_assessment |-> s] ELSE EmptyDict] :
               s \in {"stable", "unstable"} }
        ELSE { [k \in keys |-> EmptyDict] }

\* the stages that raise for a table, and what the others return for it
AnalysisOutcomes(table) ==
    UNION { { [fails |-> f, trend |-> t, outliers |-> o, orbit |-> r] :
                t \in TrendOutcomes(table, "trend" \in f),
                o \in OutlierOutcomes(table, "outliers" \in f),
                r \in OrbitOutcomes(table, "orbit" \in f) } :
            f \in SUBSET AnalysisStages }

\* a stage called without a guard: its exception leaves the caller
TryStageUnguarded(stage, value, default) ==
    IF stage \in analysis.fails
    THEN [ok |-> FALSE, raised |-> TRUE, value |-> default]
    ELSE [ok |-> TRUE, raised |-> FALSE, value |-> value]

\* try: value = stage(df); status[flag] = True / except Exception: print(...)
\* ok tells whether the flag was set; on an exception the value keeps its
\* initial default and nothing is raised
TryStage(stage, value, default) ==
    IF stage \in analysis.fails
    THEN [ok |-> FALSE, raised |-> FALSE, value |-> default]
    ELSE [ok |-> TRUE, raised |-> FALSE, value |-> value]

\* a status map that carries the clock in its status entry as well
ReportStatusStamped(table, now) ==
    [generated_time |-> now, status |-> << "success", now >>, data_records |-> Len(table)]

\* report_status as first built; now is datetime.now() cut to the second by
\* strftime('%Y-%m-%d %H:%M:%S')
ReportStatus(table, now) ==
    [generated_time |-> now, status |-> "success", data_records |-> Len(table)]

\* the time_range entry; duration_hours is round(hours, 2), held in
\* hundredths of an hour (36000 ms)
TimeRange(table) ==
    LET range == TimestampRange(table)
    IN  IF range = EmptyDict THEN EmptyDict
        ELSE [start |-> range.start, end |-> range.end,
              duration_hours |-> (2 * range.duration + 36000) \div 72000]

\* '稳定' if std / (abs(mean) if mean != 0 else 1) < 0.1 else '不稳定', on the
\* unevaluated quotients: std is nan for a single value and nan < 0.1 is
\* false; unit is the number of model units in one unit of the column, as a
\* pair numerator, denominator
Stability(st, unit) ==
    IF st.var_den = 0 THEN "unstable"
    ELSE IF st.total # 0
    THEN IF 100 * st.count * st.var_num < (st.count - 1) * st.total * st.total
         THEN "stable" ELSE "unstable"
    ELSE IF 100 * unit[2] * unit[2] * st.var_num < unit[1] * unit[1] * st.var_den
         THEN "stable" ELSE "unstable"

UnitOf(param) ==
    IF param \in {"temperature", "battery_voltage"} THEN << 10, 1 >>
    ELSE IF param = "a" THEN << 1, 100 >>
    ELSE << 1, 1 >>

\* summary['statistics_summary']: the key parameters that have statistics
StatisticsSummary(stats) ==
    [param \in {"temperature", "battery_voltage", "a", "e", "i"} \cap DOMAIN stats |->
        [mean |-> << stats[param].total, stats[param].count >>,
         min |-> stats[param].min,
         max |-> stats[param].max,
         var_num |-> stats[param].var_num,
         var_den |-> stats[param].var_den,
         stability |-> Stability(stats[param], UnitOf(param))]]

\* summary['trends_analysis']
TrendsAnalysis(temp_trend) ==
    IF temp_trend = EmptyDict THEN EmptyDict
    ELSE [temperature |-> [direction |-> Get(temp_trend, "trend", "unknown"),
                           current_value |-> GetOpt(temp_trend, "current_temperature")]]

\* summary['anomalies_summary']
AnomaliesSummary(outliers) ==
    IF outliers # EmptyDict /\ "summary" \in DOMAIN outliers
    THEN [total_outliers |-> Get(outliers.summary, "total_outliers", 0)]
    ELSE EmptyDict

\* summary['orbit_analysis_summary']
OrbitAnalysisSummary(orbit_analysis) ==
    IF orbit_analysis = EmptyDict THEN EmptyDict
    ELSE [parameters_analyzed |-> DOMAIN orbit_analysis,
          stability |-> Get(Get(orbit_analysis, "orbit_stability", EmptyDict),
                            "stability_assessment", "unknown")]

\* summary['alarms_summary']
AlarmsSummary(found, alarm_count) ==
    [total_alarms |-> alarm_count,
     alarms_by_type |->
        [t \in {found[k].type : k \in 1 .. Len(found)} |->
            Cardinality({k \in 1 .. Len(found) : found[k].type = t})]]

\* summary['cycle_reports_summary']
CycleReportsSummary(reports) ==
    IF reports = << >> THEN EmptyDict
    ELSE [total_cycles |-> Len(reports),
          average_records_per_cycle |->
              << Sum([k \in 1 .. Len(reports) |-> reports[k].total_records]), Len(reports) >>,
          cycles_with_alarms |->
              Cardinality({k \in 1 .. Len(reports) : reports[k].alarm_count > 0})]

\* the recommendation rules, in the order of the source
Recommendations(table, alarm_count, statistics_summary, orbit_summary, anomalies) ==
    (IF 10 * alarm_count > Len(table) THEN << "check_sensors_or_thresholds" >> ELSE << >>)
    \o (IF /\ "temperature" \in DOMAIN statistics_summary
           /\ statistics_summary.temperature.var_den > 0
           /\ statistics_summary.temperature.var_num
                > 2500 * statistics_summary.temperature.var_den
        THEN << "check_thermal_control" >> ELSE << >>)
    \o (IF /\ "battery_voltage" \in DOMAIN statistics_summary
           /\ statistics_summary.battery_voltage.min < 72
        THEN << "check_power_system" >> ELSE << >>)
    \o (IF Get(orbit_summary, "stability", "none") = "unstable"
        THEN << "correct_orbit" >> ELSE << >>)
    \o (IF Get(anomalies, "total_outliers", 0) > 10
        THEN << "check_data_quality" >> ELSE << >>)

\* create_summary_report(df) (cycle_reports is None, as every caller leaves
\* it): the summary, the error entry for an empty table, or the exception
\* that leaves the call.  now1 and now2 are the two readings of datetime.now().
create_summary_report(table, now1, now2) ==
    IF table = << >> THEN [error |-> "no_data"]
    ELSE
    LET n == Len(table)
        cycles == TryStage("cycles",
                      generate_cycle_report(table,
                          Smaller(20, IF n \div 5 # 0 THEN n \div 5 ELSE 10)), << >>)
        stats == TryStage("statistics", calculate_statistics(table), EmptyDict)
        temp_trend == TryStage("trend", analysis.trend, EmptyDict)
        outliers == TryStage("outliers", analysis.outliers, EmptyDict)
        orbit_analysis == TryStage("orbit", analysis.orbit, EmptyDict)
        checked == ImportCheckAllThresholds # "ImportError"
        found == IF checked THEN check_all_thresholds(thresholds, table) ELSE << >>
        alarm_count == Len(found)
        base == ReportStatus(table, now1)
        flags == (IF cycles.ok THEN {"cycle_reports_generated"} ELSE {})
                 \cup (IF stats.ok THEN {"statistics_calculated"} ELSE {})
                 \cup (IF temp_trend.ok THEN {"trend_analysis_done"} ELSE {})
                 \cup (IF outliers.ok THEN {"outliers_detected"} ELSE {})
                 \cup (IF orbit_analysis.ok THEN {"orbit_analysis_done"} ELSE {})
                 \cup (IF checked THEN {"alarms_checked", "total_alarms"} ELSE {})
        report_status ==
            [k \in DOMAIN base \cup flags |->
                IF k \in DOMAIN base THEN base[k]
                ELSE IF k = "cycle_reports_generated" THEN Len(cycles.value)
                ELSE IF k = "total_alarms" THEN alarm_count
                ELSE TRUE]
        statistics_summary == StatisticsSummary(stats.value)
        anomalies_summary == AnomaliesSummary(outliers.value)
        orbit_analysis_summary == OrbitAnalysisSummary(orbit_analysis.value)
    IN  IF \/ cycles.raised \/ stats.raised \/ temp_trend.raised
           \/ outliers.raised \/ orbit_analysis.raised
        THEN [raised |-> "Exception"]
        ELSE [report_metadata |-> report_status,
              report_generated |-> now2,
              data_overview |-> [total_records |-> n,
                                 numeric_columns |-> NumericColumns,
                                 time_range |-> TimeRange(table)],
              statistics_summary |-> statistics_summary,
              trends_analysis |-> TrendsAnalysis(temp_trend.value),
              anomalies_summary |-> anomalies_summary,
              orbit_analysis_summary |-> orbit_analysis_summary,
              alarms_summary |-> AlarmsSummary(found, alarm_count),
              cycle_reports_summary |-> CycleReportsSummary(cycles.value),
              recommendations |-> Recommendations(table, alarm_count, statistics_summary,
                                                  orbit_analysis_summary, anomalies_summary)]

-----------------------------------------------------------------------------
(* SpecReport: the pipeline run twice over one table and one configuration: *)
(* each run evaluates the thresholds and builds the summary report          *)

InitReport ==
    /\ IdleGui
    /\ pc = "check"
    /\ df \in ReportTables
    /\ thresholds \in ReportConfigs
    /\ analysis \in AnalysisOutcomes(df)
    /\ clock = 0
    /\ summaries = << >>
    /\ alarm_runs = << >>
    /\ alarms = << >>
    /\ IdleConfig /\ IdleLoad /\ IdleCycle /\ IdleStage

\* time passes between and during the runs
Tick ==
    /\ pc # "done"
    /\ clock < MaxClock
    /\ clock' = clock + 1
    /\ UNCHANGED <<gui, pc, df, thresholds, alarms, analysis, summaries, alarm_runs,
                   configVars, loadVars, cycleVars, stageVars>>

\* DataChecker.check_all_thresholds(df) of a run
CheckThresholdsRun ==
    /\ pc = "check"
    /\ alarms' = check_all_thresholds(thresholds, df)
    /\ alarm_runs' = Append(alarm_runs, alarms')
    /\ pc' = "report"
    /\ UNCHANGED <<gui, df, thresholds, analysis, clock, summaries, configVars, loadVars, cycleVars, stageVars>>

\* create_summary_report(df) of a run; the clock may advance between the two
\* readings of datetime.now()
CreateSummaryReport ==
    /\ pc = "report"
    /\ \E now2 \in {clock, clock + 1} :
          /\ now2 <= MaxClock
          /\ summaries' = Append(summaries, create_summary_report(df, clock, now2))
          /\ clock' = now2
    /\ pc' = IF Len(summaries) + 1 < 2 THEN "check" ELSE "done"
    /\ UNCHANGED <<gui, df, thresholds, alarms, analysis, alarm_runs, configVars, loadVars, cycleVars, stageVars>>

NextReport == Tick \/ CheckThresholdsRun \/ CreateSummaryReport

SpecReport == InitReport /\ [][NextReport]_vars

-----------------------------------------------------------------------------
(* Claims on the summary report *)

SectionKeys ==
    {"statistics_summary", "trends_analysis", "anomalies_summary",
     "orbit_analysis_summary", "alarms_summary", "cycle_reports_summary",
     "recommendations"}

\* the alarm section of a run in which no alarm was evaluated
EmptyAlarmSection(section) ==
    section.total_alarms = 0 /\ DOMAIN section.alarms_by_type = {}

\* the alarm section that reports the alarm list found
AlarmSectionOf(section, found) ==
    /\ section.total_alarms = Len(found)
    /\ DOMAIN section.alarms_by_type = {found[k].type : k \in 1 .. Len(found)}
    /\ \A t \in DOMAIN section.alarms_by_type :
          section.alarms_by_type[t] = Cardinality({k \in 1 .. Len(found) : found[k].type = t})

\* the statistics section holds the key parameters that have a value in df,
\* with the least and the greatest value of the column
StatisticsSectionOfTable(section) ==
    /\ DOMAIN section =
          { p \in {"temperature", "battery_voltage", "a", "e", "i"} :
              \E k \in 1 .. Len(df) : df[k][p] # NaN }
    /\ \A p \in DOMAIN section :
          /\ \E k \in 1 .. Len(df) : df[k][p] = section[p].min
          /\ \E k \in 1 .. Len(df) : df[k][p] = section[p].max
          /\ \A k \in 1 .. Len(df) :
                df[k][p] # NaN => section[p].min <= df[k][p] /\ df[k][p] <= section[p].max

\* the trend section reports what the trend stage returned
TrendSectionOfStage(section) ==
    IF DOMAIN analysis.trend = {} THEN DOMAIN section = {}
    ELSE /\ DOMAIN section = {"temperature"}
         /\ section.temperature.direction = analysis.trend.trend
         /\ section.temperature.current_value = Some(analysis.trend.current_temperature)

\* C3: when the outlier stage raises (and the statistics and trend stages do
\* not), the summary still holds the statistics and trend sections of the
\* table and the alarm section of the table's alarms, and its status map
\* marks the outlier stage as failed: an outliers_detected entry that is not
\* the success value, or an overall status other than success.
C3_OutlierFailureIsMarked ==
    \A k \in 1 .. Len(summaries) :
        (df # << >> /\ "outliers" \in analysis.fails
           /\ "statistics" \notin analysis.fails /\ "trend" \notin analysis.fails) =>
            LET s == summaries[k]
            IN  /\ SectionKeys \subseteq DOMAIN s
                /\ StatisticsSectionOfTable(s.statistics_summary)
                /\ TrendSectionOfStage(s.trends_analysis)
                /\ AlarmSectionOf(s.alarms_summary, alarm_runs[k])
                /\ \/ /\ "outliers_detected" \in DOMAIN s.report_metadata
                      /\ s.report_metadata.outliers_detected # TRUE
                   \/ s.report_metadata.status # "success"

\* C4: for a non-empty table and any set of failing stages the call returns
\* a summary (nothing is raised) that has every section key; the section of
\* a failed stage is empty (for the alarm check: no alarm, no type) and the
\* section of a stage that succeeded reports that stage's result.
C4_StageFailuresAreContained ==
    \A k \in 1 .. Len(summaries) :
        df # << >> =>
            LET s == summaries[k]
                fails == analysis.fails
            IN  /\ "raised" \notin DOMAIN s
                /\ SectionKeys \subseteq DOMAIN s
                /\ IF "statistics" \in fails THEN DOMAIN s.statistics_summary = {}
                   ELSE StatisticsSectionOfTable(s.statistics_summary)
                /\ IF "trend" \in fails THEN DOMAIN s.trends_analysis = {}
                   ELSE TrendSectionOfStage(s.trends_analysis)
                /\ IF "outliers" \in fails \/ DOMAIN analysis.outliers = {}
                   THEN DOMAIN s.anomalies_summary = {}
                   ELSE s.anomalies_summary.total_outliers
                            = analysis.outliers.summary.total_outliers
                /\ IF "orbit" \in fails THEN DOMAIN s.orbit_analysis_summary = {}
                   ELSE s.orbit_analysis_summary.parameters_analyzed = DOMAIN analysis.orbit
                /\ IF "cycles" \in fails THEN DOMAIN s.cycle_reports_summary = {}
                   ELSE /\ s.cycle_reports_summary.total_cycles >= 1
                        /\ s.cycle_reports_summary.average_records_per_cycle[1] = Len(df)
                /\ IF ImportCheckAllThresholds = "ImportError"
                   THEN EmptyAlarmSection(s.alarms_summary)
                   ELSE AlarmSectionOf(s.alarms_summary, alarm_runs[k])

\* the outlier and orbit stages failed and the others did not: both runs
\* returned a summary whose outlier, orbit and alarm sections are empty and
\* whose statistics and cycle sections are filled
C4_Witness ==
    /\ pc = "done"
    /\ analysis.fails = {"outliers", "orbit"}
    /\ Len(summaries) = 2
    /\ \A k \in 1 .. 2 :
          /\ SectionKeys \subseteq DOMAIN summaries[k]
          /\ "temperature" \in DOMAIN summaries[k].statistics_summary
          /\ summaries[k].cycle_reports_summary.total_cycles >= 1
          /\ DOMAIN summaries[k].anomalies_summary = {}
          /\ DOMAIN summaries[k].orbit_analysis_summary = {}
          /\ EmptyAlarmSection(summaries[k].alarms_summary)

\* a summary without the two entries that hold the time of the run
Timeless(s) ==
    IF "report_metadata" \notin DOMAIN s THEN s
    ELSE [s EXCEPT !.report_generated = 0,
                   !.report_metadata =
                        [k \in DOMAIN s.report_metadata \ {"generated_time"} |->
                            s.report_metadata[k]]]

TriggeredRules(s) ==
    (IF 10 * s.alarms_summary.total_alarms > s.data_overview.total_records
     THEN {"check_sensors_or_thresholds"} ELSE {})
    \cup (IF /\ "temperature" \in DOMAIN s.statistics_summary
             /\ s.statistics_summary.temperature.var_den > 0
             /\ s.statistics_summary.temperature.var_num
                    > 2500 * s.statistics_summary.temperature.var_den
          THEN {"check_thermal_control"} ELSE {})
    \cup (IF /\ "battery_voltage" \in DOMAIN s.statistics_summary
             /\ s.statistics_summary.battery_voltage.min < 72
          THEN {"check_power_system"} ELSE {})
    \cup (IF /\ DOMAIN s.orbit_analysis_summary # {}
             /\ s.orbit_analysis_summary.stability = "unstable"
          THEN {"correct_orbit"} ELSE {})
    \cup (IF /\ DOMAIN s.anomalies_summary # {}
             /\ s.anomalies_summary.total_outliers > 10
          THEN {"check_data_quality"} ELSE {})

\* C7: the recommendations hold exactly one string per triggered rule, and
\* the single recommendation "all parameters normal" when no rule triggers;
\* the list is never empty.
C7_OneRecommendationPerRuleNeverEmpty ==
    \A k \in 1 .. Len(summaries) :
        df # << >> =>
            LET s == summaries[k]
                given == {s.recommendations[j] : j \in 1 .. Len(s.recommendations)}
            IN  /\ s.recommendations # << >>
                /\ IF TriggeredRules(s) = {}
                   THEN s.recommendations = << "all_parameters_normal" >>
                   ELSE /\ given = TriggeredRules(s)
                        /\ Len(s.recommendations) = Cardinality(given)

\* C8: the alarm section of a summary reports the alarms check_all_thresholds
\* produces for the table under the loaded configuration: their number in
\* total_alarms and their number per type in alarms_by_type.
C8_AlarmSectionReflectsEvaluation ==
    \A k \in 1 .. Len(summaries) :
        df # << >> => AlarmSectionOf(summaries[k].alarms_summary, alarm_runs[k])

-----------------------------------------------------------------------------
(***************************************************************************)
(* The table object handed to the stages.  A stage receives a reference to *)
(* the caller's DataFrame; what it does to objects is modelled on a heap,   *)
(* a sequence of table objects in which object 1 is the caller's table and *)
(* every copy a stage makes is a new object.                               *)
(***************************************************************************)

MaxStageRows == 2       \* rows of the table handed to the stages
MaxCalls == 3           \* stage calls on one table

StageNames ==
    { "calculate_statistics", "fit_temperature_trend", "detect_outliers",
      "analyze_orbit_parameters", "check_all_thresholds", "generate_cycle_report",
      "create_summary_report" }

\* the columns _calculate_derived_features adds
DerivedColumns ==
    { "altitude", "orbit_period", "temp_change_rate", "voltage_change_rate",
      "hour", "minute", "day_of_week", "is_night" }

StageTables ==
    UNION { [1 .. k -> { Row(t, NominalReading) : t \in Stamps }] : k \in 0 .. MaxStageRows }

\* df.copy(): a new object with the same content
CopyOf(heap, obj) == Append(heap, heap[obj])

\* sorting object obj where it stands
SortValuesInplace(heap, obj) ==
    [heap EXCEPT ![obj].rows = SortRows(@, "datetime")]

\* df.sort_values('timestamp').reset_index(drop=True): a new, sorted object
SortValues(heap, obj) ==
    Append(heap, [heap[obj] EXCEPT !.rows = SortRows(@, "datetime")])

\* df.iloc[start_idx:end_idx]: a new object over the rows of the range
Slice(heap, obj, start_idx, end_idx) ==
    Append(heap, [heap[obj] EXCEPT !.rows = SubSeq(@, start_idx + 1, end_idx)])

\* obj[col] = ...
SetColumn(heap, obj, col) == [heap EXCEPT ![obj].columns = @ \cup {col}]

\* calculate_statistics(df) reads columns of df (df[col].dropna(), .diff(),
\* .corr() build new objects) and assigns to none
calculate_statistics_on(heap, obj) == heap

\* fit_temperature_trend(df): reads df['temperature'].dropna()
fit_temperature_trend_on(heap, obj) == heap

\* detect_outliers(df): reads df[col].dropna() and df.loc[idx, 'timestamp']
detect_outliers_on(heap, obj) == heap

\* check_all_thresholds(df): reads the rows with df.iterrows()
check_all_thresholds_on(heap, obj) == heap

\* analyze_orbit_parameters(df): the period analysis works on df.copy() and
\* adds 'altitude' and 'orbit_period' to the copy
analyze_orbit_parameters_on(heap, obj) ==
    IF "a" \in heap[obj].columns /\ "altitude" \notin heap[obj].columns
    THEN LET copied == CopyOf(heap, obj)
             df_copy == Len(copied)
         IN  SetColumn(SetColumn(copied, df_copy, "altitude"), df_copy, "orbit_period")
    ELSE heap

\* the loop of generate_cycle_report from cycle cycle_num on, df being the
\* sorted object
RECURSIVE CycleLoop(_, _, _, _)
CycleLoop(heap, df_obj, cycle_num, c) ==
    IF cycle_num >= TotalCycles(Len(heap[df_obj].rows), c)
    THEN heap
    ELSE LET sliced == Slice(heap, df_obj, cycle_num * c,
                             Smaller((cycle_num + 1) * c, Len(heap[df_obj].rows)))
             cycle_df == Len(sliced)
             stats == calculate_statistics_on(sliced, cycle_df)
             trend == IF Len(stats[cycle_df].rows) > 3
                      THEN fit_temperature_trend_on(stats, cycle_df)
                      ELSE stats
         IN  IF sliced[cycle_df].rows = << >>
             THEN CycleLoop(sliced, df_obj, cycle_num + 1, c)
             ELSE CycleLoop(detect_outliers_on(trend, cycle_df), df_obj, cycle_num + 1, c)

\* generate_cycle_report(df, cycle_size): the name df is bound to the sorted
\* copy from line 61 on
generate_cycle_report_on(heap, obj, c) ==
    IF heap[obj].rows = << >>
    THEN heap
    ELSE IF "timestamp" \in heap[obj].columns
    THEN LET sorted == SortValues(heap, obj)
         IN  CycleLoop(sorted, Len(sorted), 0, c)
    ELSE CycleLoop(heap, obj, 0, c)

\* create_summary_report(df): the five stages in turn, on df itself
create_summary_report_on(heap, obj) ==
    check_all_thresholds_on(
        analyze_orbit_parameters_on(
            detect_outliers_on(
                fit_temperature_trend_on(
                    calculate_statistics_on(heap, obj), obj), obj), obj), obj)

\* what a call of the stage does to the objects
StageEffect(stage, heap, obj, c) ==
    CASE stage = "calculate_statistics" -> calculate_statistics_on(heap, obj)
      [] stage = "fit_temperature_trend" -> fit_temperature_trend_on(heap, obj)
      [] stage = "detect_outliers" -> detect_outliers_on(heap, obj)
      [] stage = "analyze_orbit_parameters" -> analyze_orbit_parameters_on(heap, obj)
      [] stage = "check_all_thresholds" -> check_all_thresholds_on(heap, obj)
      [] stage = "generate_cycle_report" -> generate_cycle_report_on(heap, obj, c)
      [] stage = "create_summary_report" -> create_summary_report_on(heap, obj)

InitStages ==
    /\ IdleGui
    /\ pc = "stages"
    /\ df \in StageTables
    /\ \E columns \in {ExpectedSet, ExpectedSet \cup DerivedColumns} :
          frame = [columns |-> columns, rows |-> df]
    /\ calls = << >>
    /\ params = << >>
    /\ thresholds = EmptyDict /\ alarms = << >>
    /\ IdleConfig /\ IdleLoad /\ IdleCycle /\ IdleReport

\* one call of a stage on the caller's table; the copies the stage made are
\* dropped when it returns
CallStage(stage) ==
    /\ pc = "stages"
    /\ Len(calls) < MaxCalls
    /\ \E c \in 1 .. 2 :
          /\ frame' = StageEffect(stage, <<frame>>, 1, c)[1]
          /\ params' = IF stage = "generate_cycle_report" THEN [cycle_size |-> c] ELSE << >>
    /\ calls' = Append(calls, stage)
    /\ UNCHANGED <<gui, pc, checkVars, configVars, loadVars, cycleVars, reportVars>>

NextStages == \E stage \in StageNames : CallStage(stage)

SpecStages == InitStages /\ [][NextStages]_vars

\* C17: no call of a stage, in any order and number, changes the rows, the
\* columns or the row order of the table it is given.
C17_StagesLeaveTableUnchanged == [][frame' = frame]_vars

\* an unsorted table without the derived columns, on which the cycle report
\* (which sorts) and the orbit analysis (which adds columns) have both run
C17_Witness ==
    /\ \E j, k \in 1 .. Len(calls) :
          calls[j] = "generate_cycle_report" /\ calls[k] = "analyze_orbit_parameters"
    /\ "altitude" \notin frame.columns
    /\ Len(frame.rows) = 2
    /\ StampBefore(frame.rows[2].timestamp, frame.rows[1].timestamp)
    /\ frame = [columns |-> ExpectedSet, rows |-> df]

-----------------------------------------------------------------------------
(***************************************************************************)
(* core/data_analysis.py: detect_outliers and fit_temperature_trend,       *)
(* computed.  In the tables of this part a temperature is a whole number   *)
(* of 0.0001 degrees, so that slopes next to 0.01 degrees a sample occur.  *)
(* A quartile is kept as four times its value, a threshold as twice its    *)
(* value and a bound as eight times its value, a slope as a quotient, so   *)
(* that the interpolation of the quartiles, the bounds and the least       *)
(* squares are exact.                                                      *)
(***************************************************************************)

MaxProbes == 4          \* rows added to the base rows of the table

\* rows of a table whose temperatures have the quartiles 10 and 20
BaseTemperatures == <<10, 10, 15, 15, 15, 15, 20, 20>>

\* temperatures of the added rows, among them the bounds -5 and 35 of the
\* threshold 1.5 and a missing value
ProbeTemperatures == {-6, -5, 35, 36, NaN}

\* a row that has a temperature (or nan) and no other reading
TemperatureRow(t, v) ==
    [timestamp |-> t, temperature |-> v, battery_voltage |-> NaN, a |-> NaN, e |-> NaN,
     i |-> NaN, raan |-> NaN, argp |-> NaN, mean_anomaly |-> NaN]

TemperatureTable(values) ==
    [k \in 1 .. Len(values) |-> TemperatureRow((k - 1) * MsPerMinute, values[k])]

OutlierTables ==
    { TemperatureTable(base \o probes) :
        base \in {<< >>, BaseTemperatures},
        probes \in UNION { [1 .. k -> ProbeTemperatures] : k \in 0 .. MaxProbes } }

MaxTrendRows == 3       \* rows of a table with temperatures next to the dead-band

\* temperatures 0.0099, 0.01 and 0.0101 degrees apart, and a missing one
TrendTemperatures == {0, 99, 100, 101, NaN}

TrendTables ==
    { TemperatureTable(values) :
        values \in UNION { [1 .. k -> TrendTemperatures] : k \in 0 .. MaxTrendRows } }

\* method, threshold (twice its value: 1.5 and 2) and degree of the calls
AnalysisParams ==
    { [method |-> mt, threshold |-> th, degree |-> dg] :
        mt \in {"iqr", "zscore", "mad"}, th \in {3, 4}, dg \in 0 .. 2 }

\* the index labels of data = df[col].dropna(), in row order
DataIndex(table, col) ==
    SelectSeq([k \in 1 .. Len(table) |-> k - 1], LAMBDA idx : table[idx + 1][col] # NaN)

\* data.quantile(num / 4), four times: linear interpolation between the
\* sorted values next to position (n - 1) * num / 4
Quantile(data, num) ==
    LET sorted == SortSeq(data, LAMBDA x, y : x < y)
        below == (num * (Len(sorted) - 1)) \div 4
        part == (num * (Len(sorted) - 1)) % 4
    IN  IF part = 0 THEN 4 * sorted[below + 1]
        ELSE 4 * sorted[below + 1] + part * (sorted[below + 2] - sorted[below + 1])

\* lower_bound and upper_bound, eight times
IqrBounds(data, threshold) ==
    LET q1 == Quantile(data, 1)
        q3 == Quantile(data, 3)
        iqr == q3 - q1
    IN  [lower_bound |-> 2 * q1 - threshold * iqr, upper_bound |-> 2 * q3 + threshold * iqr]

\* a comparison that takes the bounds themselves as outliers
OutsideOrAt(value, bounds) ==
    8 * value <= bounds.lower_bound \/ 8 * value >= bounds.upper_bound

\* (data < lower_bound) | (data > upper_bound)
Outside(value, bounds) ==
    8 * value < bounds.lower_bound \/ 8 * value > bounds.upper_bound

\* np.abs(stats.zscore(data)) > threshold: |v - mean| / std > threshold with
\* the population deviation, cleared of the root and the quotients; a
\* constant column has nan scores, which exceed nothing
ZScoreAbove(data, value, threshold) ==
    LET n == Len(data)
        total == Sum(data)
        squares == Sum([k \in 1 .. n |-> data[k] * data[k]])
    IN  4 * (n * value - total) * (n * value - total)
            > threshold * threshold * (n * squares - total * total)

\* a column is skipped below nine values
FewerThanNine(data) == Len(data) < 9

\* if len(data) < 10: continue
TooFewForOutliers(data) == Len(data) < 10

\* the entry of column col, None if the column is skipped or has no outlier
ColumnOutliers(table, col, method, threshold) ==
    LET data == ColumnData(table, col)
        index == DataIndex(table, col)
        bounds == IqrBounds(data, threshold)
        outlier_indices ==
            SelectSeq(index,
                      LAMBDA idx : IF method = "iqr" THEN Outside(table[idx + 1][col], bounds)
                                   ELSE ZScoreAbove(data, table[idx + 1][col], threshold))
    IN  IF TooFewForOutliers(data) \/ method \notin {"iqr", "zscore"} \/ outlier_indices = << >>
        THEN None
        ELSE Some([count |-> Len(outlier_indices),
                   percentage |-> [num |-> Len(outlier_indices) * 100, den |-> Len(data)],
                   indices |-> outlier_indices,
                   values |-> [k \in 1 .. Len(outlier_indices) |->
                                 table[outlier_indices[k] + 1][col]],
                   timestamps |-> [k \in 1 .. Len(outlier_indices) |->
                                     table[outlier_indices[k] + 1].timestamp],
                   method |-> method,
                   threshold |-> threshold,
                   lower_bound |-> IF method = "iqr" THEN Some(bounds.lower_bound) ELSE None,
                   upper_bound |-> IF method = "iqr" THEN Some(bounds.upper_bound) ELSE None])

\* detect_outliers(df, method, threshold)
detect_outliers(table, method, threshold) ==
    LET found == { c \in NumericColumns : ColumnOutliers(table, c, method, threshold) # None }
    IN  IF table = << >> \/ found = {}
        THEN EmptyDict
        ELSE [key \in found \cup {"summary"} |->
                IF key = "summary"
                THEN [total_outliers |->
                          Sum([q \in 1 .. Len(ExpectedColumns) |->
                                 IF ExpectedColumns[q] \in found
                                 THEN ColumnOutliers(table, ExpectedColumns[q], method,
                                                     threshold)[1].count
                                 ELSE 0]),
                      columns_with_outliers |-> found,
                      method |-> method]
                ELSE ColumnOutliers(table, key, method, threshold)[1]]

\* 0.01 degrees in the unit of the temperatures
DeadBand == 100

\* sum of x^power * y over x = np.arange(len(y))
Moment(y, power) ==
    Sum([k \in 1 .. Len(y) |->
           y[k] * (IF power = 0 THEN 1 ELSE IF power = 1 THEN k - 1 ELSE (k - 1) * (k - 1))])

\* sum of x^power over x = np.arange(n)
PowerSum(n, power) ==
    Sum([k \in 1 .. n |->
           IF power = 0 THEN 1
           ELSE IF power = 1 THEN k - 1
           ELSE IF power = 2 THEN (k - 1) * (k - 1)
           ELSE IF power = 3 THEN (k - 1) * (k - 1) * (k - 1)
           ELSE (k - 1) * (k - 1) * (k - 1) * (k - 1)])

Det3(m) ==
    m[1][1] * (m[2][2] * m[3][3] - m[2][3] * m[3][2])
    - m[1][2] * (m[2][1] * m[3][3] - m[2][3] * m[3][1])
    + m[1][3] * (m[2][1] * m[3][2] - m[2][2] * m[3][1])

\* coefficients[-2] of np.polyfit(x, y, degree) for degree 1 and 2, as a
\* quotient with a positive denominator: the least squares solution, which
\* is unique but for two samples of degree 2, where polyfit returns the
\* solution of least norm on its scaled columns, half the difference
LinearCoefficient(y, degree) ==
    LET n == Len(y)
    IN  IF degree = 1
        THEN [num |-> n * Moment(y, 1) - PowerSum(n, 1) * Moment(y, 0),
              den |-> n * PowerSum(n, 2) - PowerSum(n, 1) * PowerSum(n, 1)]
        ELSE IF n = 2
        THEN [num |-> y[2] - y[1], den |-> 2]
        ELSE [num |-> Det3(<< <<PowerSum(n, 4), Moment(y, 2), PowerSum(n, 2)>>,
                              <<PowerSum(n, 3), Moment(y, 1), PowerSum(n, 1)>>,
                              <<PowerSum(n, 2), Moment(y, 0), PowerSum(n, 0)>> >>),
              den |-> Det3(<< <<PowerSum(n, 4), PowerSum(n, 3), PowerSum(n, 2)>>,
                              <<PowerSum(n, 3), PowerSum(n, 2), PowerSum(n, 1)>>,
                              <<PowerSum(n, 2), PowerSum(n, 1), PowerSum(n, 0)>> >>)]

\* a classification that counts the ends of the dead-band as trends
TrendOfClosed(slope) ==
    IF slope.num >= DeadBand * slope.den THEN "rising"
    ELSE IF slope.num <= -DeadBand * slope.den THEN "falling"
    ELSE "steady"

\* "上升" if slope > 0.01 else "下降" if slope < -0.01 else "平稳"
TrendOf(slope) ==
    IF slope.num > DeadBand * slope.den THEN "rising"
    ELSE IF slope.num < -DeadBand * slope.den THEN "falling"
    ELSE "steady"

\* if len(temp_data) < 2: return {}
TooFewForTrend(temp_data) == Len(temp_data) < 2

\* np.polyfit(x, y, degree) over x = np.arange(len(y)) for degree 0, 1 and
\* 2: the coefficients from the highest order down, as quotients with one
\* positive denominator.  Degree 0 gives the mean; two samples of degree 2
\* give the solution of least norm on the scaled columns
PolyFit(y, degree) ==
    LET n == Len(y)
        linear == LinearCoefficient(y, degree)
    IN  IF degree = 0
        THEN << [num |-> Moment(y, 0), den |-> n] >>
        ELSE IF degree = 1
        THEN << linear,
                [num |-> Moment(y, 0) * PowerSum(n, 2) - PowerSum(n, 1) * Moment(y, 1),
                 den |-> linear.den] >>
        ELSE IF n = 2
        THEN << [num |-> y[2] - y[1], den |-> 2], linear, [num |-> 2 * y[1], den |-> 2] >>
        ELSE << [num |-> Det3(<< <<Moment(y, 2), PowerSum(n, 3), PowerSum(n, 2)>>,
                                 <<Moment(y, 1), PowerSum(n, 2), PowerSum(n, 1)>>,
                                 <<Moment(y, 0), PowerSum(n, 1), PowerSum(n, 0)>> >>),
                 den |-> linear.den],
                linear,
                [num |-> Det3(<< <<PowerSum(n, 4), PowerSum(n, 3), Moment(y, 2)>>,
                                 <<PowerSum(n, 3), PowerSum(n, 2), Moment(y, 1)>>,
                                 <<PowerSum(n, 2), PowerSum(n, 1), Moment(y, 0)>> >>),
                 den |-> linear.den] >>

\* np.poly1d(coefficients)(x): Horner's rule over the numerators
RECURSIVE Horner(_, _, _)
Horner(coefficients, x, acc) ==
    IF coefficients = << >> THEN acc
    ELSE Horner(Tail(coefficients), x, acc * x + Head(coefficients).num)

poly1d(coefficients, x) ==
    [num |-> Horner(coefficients, x, 0), den |-> coefficients[1].den]

\* the coefficient next to the highest one
SecondFromTop(coefficients) == coefficients[2]

\* coefficients[-2]
SecondLast(coefficients) == coefficients[Len(coefficients) - 1]

\* if len(temp_data) > 10
EnoughForForecast(temp_data) == Len(temp_data) > 10

\* fit_temperature_trend(df, degree) for degree 0, 1 and 2: the entries of
\* the result that do not depend on the rounding of the fit
fit_temperature_trend(table, degree) ==
    LET temp_data == ColumnData(table, "temperature")
        coefficients == PolyFit(temp_data, degree)
        slope == IF degree >= 1 THEN SecondLast(coefficients)
                 ELSE [num |-> 0, den |-> 1]
    IN  IF table = << >> \/ TooFewForTrend(temp_data)
        THEN EmptyDict
        ELSE [coefficients |-> coefficients,
              trend |-> IF degree >= 1 THEN TrendOf(slope) ELSE "steady",
              slope |-> slope,
              current_temperature |-> temp_data[Len(temp_data)],
              temperature_range |->
                  Greatest({temp_data[k] : k \in 1 .. Len(temp_data)})
                  - Least({temp_data[k] : k \in 1 .. Len(temp_data)}),
              future_predictions |->
                  IF EnoughForForecast(temp_data)
                  THEN [k \in 1 .. 5 |-> poly1d(coefficients, Len(temp_data) + k - 1)]
                  ELSE << >>]

\* the calls run on a table of base rows and added rows with degree 1, or on
\* a table of temperatures next to the dead-band with the default method and
\* threshold
InitAnalysis ==
    /\ IdleGui
    /\ pc = "start"
    /\ \/ df \in OutlierTables /\ params \in { q \in AnalysisParams : q.degree = 1 }
       \/ df \in TrendTables
          /\ params \in { q \in AnalysisParams : q.method = "iqr" /\ q.threshold = 3 }
    /\ analysis = NoAnalysis
    /\ frame = << >> /\ calls = << >>
    /\ thresholds = EmptyDict /\ alarms = << >>
    /\ clock = 0 /\ summaries = << >> /\ alarm_runs = << >>
    /\ IdleConfig /\ IdleLoad /\ IdleCycle

FitTemperatureTrendRun ==
    /\ pc = "start"
    /\ analysis' = [analysis EXCEPT !.trend = fit_temperature_trend(df, params.degree)]
    /\ pc' = "trend fitted"
    /\ UNCHANGED <<gui, checkVars, configVars, loadVars, cycleVars, clock, summaries, alarm_runs,
                   stageVars>>

DetectOutliersRun ==
    /\ pc = "trend fitted"
    /\ analysis' = [analysis EXCEPT !.outliers = detect_outliers(df, params.method, params.threshold)]
    /\ pc' = "done"
    /\ UNCHANGED <<gui, checkVars, configVars, loadVars, cycleVars, clock, summaries, alarm_runs,
                   stageVars>>

NextAnalysis == FitTemperatureTrendRun \/ DetectOutliersRun

SpecAnalysis == InitAnalysis /\ [][NextAnalysis]_vars

\* the index labels detect_outliers reports for a column
Flagged(col) ==
    IF col \in DOMAIN analysis.outliers
    THEN { analysis.outliers[col].indices[k] : k \in 1 .. Len(analysis.outliers[col].indices) }
    ELSE {}

\* C18: with the IQR method on a column of ten values or more, a value is
\* reported exactly when it is strictly below Q1 - k * IQR or strictly above
\* Q3 + k * IQR; a value equal to a bound is not reported.
C18_IqrFlagsStrictlyOutside ==
    (pc = "done" /\ params.method = "iqr") =>
        \A col \in NumericColumns :
            LET data == ColumnData(df, col)
                q1 == Quantile(data, 1)
                q3 == Quantile(data, 3)
                k == params.threshold
            IN  Len(data) >= 10 =>
                    \A row \in 1 .. Len(df) :
                        df[row][col] # NaN =>
                            ((row - 1) \in Flagged(col)
                                <=> \/ 8 * df[row][col] < 2 * q1 - k * (q3 - q1)
                                    \/ 8 * df[row][col] > 2 * q3 + k * (q3 - q1))

\* Q1 = 10, Q3 = 20 and k = 1.5: values -5 and 35 are in the column and not
\* reported, a value beyond them is
C18_Witness ==
    /\ pc = "done" /\ params.method = "iqr" /\ params.threshold = 3
    /\ Len(ColumnData(df, "temperature")) >= 10
    /\ Quantile(ColumnData(df, "temperature"), 1) = 40
    /\ Quantile(ColumnData(df, "temperature"), 3) = 80
    /\ \E r1, r2, r3 \in 1 .. Len(df) :
          /\ df[r1].temperature = -5 /\ (r1 - 1) \notin Flagged("temperature")
          /\ df[r2].temperature = 35 /\ (r2 - 1) \notin Flagged("temperature")
          /\ df[r3].temperature = 36 /\ (r3 - 1) \in Flagged("temperature")

\* the temperatures rise by the same step d from sample to sample
RisesBy(y, d) == \A k \in 1 .. Len(y) - 1 : y[k + 1] - y[k] = d

\* C19: a fitted slope above 0.01 is 'rising', one below -0.01 is 'falling'
\* and every slope from -0.01 to 0.01, the ends included, is 'steady'; a fit
\* of degree 0 is 'steady' with slope 0.  The slope is that of the data: of
\* samples on a line that the degree determines, it is the step of the line.
C19_TrendDeadBand ==
    (pc # "start" /\ DOMAIN analysis.trend # {}) =>
        LET r == analysis.trend
            y == ColumnData(df, "temperature")
        IN  IF params.degree = 0
            THEN r.trend = "steady" /\ r.slope.num = 0
            ELSE /\ r.slope.den > 0
                 /\ r.trend = "rising" <=> r.slope.num > 100 * r.slope.den
                 /\ r.trend = "falling" <=> r.slope.num < -100 * r.slope.den
                 /\ r.trend = "steady" <=> /\ r.slope.num <= 100 * r.slope.den
                                           /\ r.slope.num >= -100 * r.slope.den
                 /\ \A d \in {-101, -100, -99, 0, 99, 100, 101} :
                       (RisesBy(y, d) /\ Len(y) > params.degree)
                           => r.slope.num = d * r.slope.den

\* two samples 0.01 degrees apart fitted with degree 1: the slope is the end
\* of the dead-band and the trend is 'steady'
C19_Witness ==
    /\ pc # "start" /\ params.degree = 1
    /\ ColumnData(df, "temperature") = <<0, 100>>
    /\ analysis.trend.slope = [num |-> 100, den |-> 1]
    /\ analysis.trend.trend = "steady"

\* C20: too few samples give empty results: the trend fit returns nothing for
\* fewer than 2 temperatures, detect_outliers reports no column that has
\* fewer than 10 values, and nothing at all when every column has.
C20_TooFewSamplesGiveEmptyResults ==
    /\ (pc # "start" /\ Len(ColumnData(df, "temperature")) < 2)
           => DOMAIN analysis.trend = {}
    /\ pc = "done" =>
           /\ \A col \in NumericColumns :
                 Len(ColumnData(df, col)) < 10 => col \notin DOMAIN analysis.outliers
           /\ (\A col \in NumericColumns : Len(ColumnData(df, col)) < 10)
                  => DOMAIN analysis.outliers = {}

\* ten rows with nine temperatures, one of them far above the others, and
\* the default method: nothing is reported
C20_Witness ==
    /\ pc = "done" /\ params.method = "iqr"
    /\ Len(df) = 10
    /\ Len(ColumnData(df, "temperature")) = 9
    /\ \E row \in 1 .. Len(df) : df[row].temperature = 36
    /\ DOMAIN analysis.outliers = {}

\* the fitted polynomial at the five indices after the last observed one
ForecastOf(r, n) ==
    /\ Len(r.future_predictions) = 5
    /\ \A k \in 1 .. 5 :
          LET x == n + k - 1
              c == r.coefficients
              value == IF Len(c) = 1 THEN c[1].num
                       ELSE IF Len(c) = 2 THEN c[1].num * x + c[2].num
                       ELSE c[1].num * x * x + c[2].num * x + c[3].num
          IN  r.future_predictions[k] = [num |-> value, den |-> c[1].den]

\* C21: the trend fit returns a forecast of exactly 5 values, the fitted
\* polynomial at the 5 indices following the last observed index, when the
\* series has at least 10 valid samples, and an empty forecast when it has
\* fewer than 10.
C21_ForecastFromTenSamples ==
    (pc # "start" /\ DOMAIN analysis.trend # {}) =>
        LET n == Len(ColumnData(df, "temperature"))
        IN  IF n >= 10 THEN ForecastOf(analysis.trend, n)
            ELSE analysis.trend.future_predictions = << >>

\* the forecast the code makes: five values from eleven samples on, none
\* up to ten
C21_ForecastAboveTenSamples ==
    (pc # "start" /\ DOMAIN analysis.trend # {}) =>
        LET n == Len(ColumnData(df, "temperature"))
        IN  IF n > 10 THEN ForecastOf(analysis.trend, n)
            ELSE analysis.trend.future_predictions = << >>

\* the coefficients are those of a polynomial listed from the highest order
\* down: where the samples determine the polynomial (as many samples as
\* coefficients), it passes through every sample
ListedFromHighestOrder(r, y) ==
    Len(y) = Len(r.coefficients) =>
        \A k \in 1 .. Len(y) :
            poly1d(r.coefficients, k - 1).num = y[k] * r.coefficients[1].den

\* C23 as stated: for every fit degree d >= 1 the slope is the
\* second-highest-order coefficient of the fitted polynomial (coefficients
\* listed from highest order down), and the slope is 0 for d = 0.
C23_SlopeIsSecondHighestCoefficient ==
    (pc # "start" /\ DOMAIN analysis.trend # {}) =>
        LET r == analysis.trend
        IN  IF params.degree >= 1
            THEN r.slope = r.coefficients[2]
            ELSE r.slope.num = 0

\* C23, amended: for every fit degree d >= 1 the slope is the coefficient of
\* the first-order term of the fitted polynomial, the d-th of the d + 1
\* coefficients listed from highest order down (the highest-order one for
\* d = 1, the second-highest for d = 2), and the slope is 0 for d = 0.
C23_SlopeIsFirstOrderCoefficient ==
    (pc # "start" /\ DOMAIN analysis.trend # {}) =>
        LET r == analysis.trend
            y == ColumnData(df, "temperature")
        IN  /\ Len(r.coefficients) = params.degree + 1
            /\ ListedFromHighestOrder(r, y)
            /\ IF params.degree >= 1
               THEN r.slope = r.coefficients[params.degree]
               ELSE r.slope.num = 0

\* a line through two samples, fitted with degree 1: the slope is the first
\* of the two coefficients and differs from the second, the intercept
C23_Witness ==
    /\ pc # "start" /\ params.degree = 1
    /\ ColumnData(df, "temperature") = <<0, 100>>
    /\ analysis.trend.coefficients = << [num |-> 100, den |-> 1], [num |-> 0, den |-> 1] >>
    /\ analysis.trend.slope = analysis.trend.coefficients[1]
    /\ analysis.trend.slope # analysis.trend.coefficients[2]

-----------------------------------------------------------------------------
(***************************************************************************)
(* core/data_analysis.py: analyze_orbit_parameters, computed, and the      *)
(* summary report made of the same table.  The table is a plain one of the *)
(* nine expected columns or the one the loader returns for it, which       *)
(* carries the derived columns as well.                                    *)
(***************************************************************************)

MaxOrbitRows == 2       \* rows of a table given to the orbit analysis

\* readings with semi-major axes 7000 and 7200 km or none, and eccentricity
\* 0 or 0.001
OrbitReadings ==
    { [NominalReading EXCEPT !.a = x, !.e = y] : x \in {70, 72, NaN}, y \in {0, 1} }

PlainOrbitTables ==
    { Stamped(rs) : rs \in UNION { [1 .. k -> OrbitReadings] : k \in 0 .. MaxOrbitRows } }

OrbitTables ==
    PlainOrbitTables \cup { calculate_derived_features(t) : t \in PlainOrbitTables }

\* df.columns of a table that has a row
ColumnsOf(table) == DOMAIN table[1]

\* '稳定' if data.std() / data.mean() < 0.01 else '不稳定': std is nan for a
\* single value, the quotient is inf or nan for a mean of 0, and neither is
\* below 0.01; below a negative mean the quotient is not positive
StableBelowHundredth(st) ==
    IF st.var_den = 0 THEN "unstable"
    ELSE IF st.total = 0 THEN "unstable"
    ELSE IF st.total < 0 THEN "stable"
    ELSE IF 10000 * st.count * st.var_num < (st.count - 1) * st.total * st.total
    THEN "stable" ELSE "unstable"

\* analysis_dict[param] of an orbital element that has a value
ElementAnalysis(data) ==
    LET st == Describe(data, data)
    IN  [mean |-> << st.total, st.count >>,
         var_num |-> st.var_num, var_den |-> st.var_den,
         min |-> st.min, max |-> st.max, range |-> st.max - st.min,
         stability |-> StableBelowHundredth(st)]

\* the rows that have a time difference to the row before them
TimeDiffRows(table) == { k \in 2 .. Len(table) : TimeDiff(table, k) # NaN }

\* if 'a' in df.columns and 'altitude' not in df.columns
PeriodBranch(table) ==
    "a" \in ColumnsOf(table) /\ "altitude" \notin ColumnsOf(table)

\* analysis_dict['orbit_period'] of the periods that have a value, in seconds
PeriodAnalysis(period_data) ==
    LET st == Describe(period_data, period_data)
    IN  [mean |-> << st.total, st.count >>,
         var_num |-> st.var_num, var_den |-> st.var_den,
         min |-> st.min, max |-> st.max,
         mean_minutes |-> << st.total, 60 * st.count >>,
         mean_hours |-> << st.total, 3600 * st.count >>]

\* analyze_orbit_parameters(df) on a table that has the six orbital elements
\* and the timestamp among its columns.  assessment is the label of the
\* orbit_stability entry, which depends on the rounding of the rates and is
\* left to the caller; the contents of the parameter_correlations entry are
\* not modelled.
analyze_orbit_parameters(table, assessment) ==
    IF table = << >> THEN EmptyDict
    ELSE
    LET elements == { q \in {"a", "e", "i", "raan", "argp", "mean_anomaly"} :
                        ColumnData(table, q) # << >> }
        a_data == ColumnData(table, "a")
        period_data == [k \in 1 .. Len(a_data) |-> OrbitPeriod(a_data[k])]
        keys == elements
                \cup (IF Len(a_data) > 1 /\ TimeDiffRows(table) # {}
                      THEN {"orbit_stability"} ELSE {})
                \cup (IF PeriodBranch(table) /\ Len(period_data) > 0
                      THEN {"orbit_period"} ELSE {})
                \cup {"parameter_correlations"}
    IN  [key \in keys |->
            IF key = "orbit_stability" THEN [stability_assessment |-> assessment]
            ELSE IF key = "orbit_period" THEN PeriodAnalysis(period_data)
            ELSE IF key = "parameter_correlations" THEN EmptyDict
            ELSE ElementAnalysis(ColumnData(table, key))]

\* the stages of a run in which none raises, the orbit analysis computed
ComputedOutcomes(table) ==
    { [fails |-> {}, trend |-> t, outliers |-> o,
       orbit |-> analyze_orbit_parameters(table, s)] :
        t \in TrendOutcomes(table, FALSE),
        o \in OutlierOutcomes(table, FALSE),
        s \in {"stable", "unstable"} }

InitOrbit ==
    /\ IdleGui
    /\ pc = "check"
    /\ df \in OrbitTables
    /\ thresholds = CHOOSE c \in ReportConfigs : TRUE
    /\ analysis \in ComputedOutcomes(df)
    /\ clock = 0
    /\ summaries = << >>
    /\ alarm_runs = << >>
    /\ alarms = << >>
    /\ IdleConfig /\ IdleLoad /\ IdleCycle /\ IdleStage

NextOrbit == NextReport

SpecOrbit == InitOrbit /\ [][NextOrbit]_vars

\* std / mean < 0.01 of the values of a column: the sample deviation of two
\* values or more, over a mean that is not 0
DispersionBelowHundredth(data) ==
    LET n == Len(data)
        total == Sum(data)
        squares == Sum([k \in 1 .. n |-> data[k] * data[k]])
    IN  /\ n >= 2
        /\ total # 0
        /\ \/ total < 0
           \/ 10000 * n * (n * squares - total * total) < (n - 1) * total * total

\* C24: the stability label of the summary's statistics section follows the
\* rule of the orbit analyzer: every parameter of the section is labelled
\* 'stable' exactly when its std / mean is below 0.01, so that the label is
\* the one the orbit analysis gives the parameter.
C24_SummaryStabilityFollowsOrbitRule ==
    \A k \in 1 .. Len(summaries) :
        "statistics_summary" \in DOMAIN summaries[k] =>
            LET section == summaries[k].statistics_summary
            IN  \A p \in DOMAIN section :
                   /\ section[p].stability = "stable"
                         <=> DispersionBelowHundredth(ColumnData(df, p))
                   /\ p \in DOMAIN analysis.orbit
                         => section[p].stability = analysis.orbit[p].stability

\* C25: for a non-empty table that has the column a with at least one
\* value, the loader's enriched table (which carries altitude and
\* orbit_period already) included, analyze_orbit_parameters returns an
\* orbit_period summary with mean, std, min, max, mean_minutes and
\* mean_hours, and the summary report lists it among the analyzed entries.
C25_OrbitPeriodSummaryReturned ==
    \A k \in 1 .. Len(summaries) :
        (df # << >> /\ ColumnData(df, "a") # << >>) =>
            /\ "orbit_period" \in DOMAIN analysis.orbit
            /\ {"mean", "var_num", "var_den", "min", "max", "mean_minutes", "mean_hours"}
                  \subseteq DOMAIN analysis.orbit.orbit_period
            /\ "orbit_period" \in summaries[k].orbit_analysis_summary.parameters_analyzed

\* the same for the tables that have no altitude column
C25_WithoutAltitudeColumn ==
    (df # << >> /\ "altitude" \notin ColumnsOf(df)) => C25_OrbitPeriodSummaryReturned

-----------------------------------------------------------------------------
(***************************************************************************)
(* gui/main_gui.py: load_csv_file and load_directory.  Each starts a       *)
(* background thread that creates a DataLoader, loads through              *)
(* self.data_loader and assigns current_df and current_file; the threads   *)
(* share the three fields without a lock, and a thread may be preempted    *)
(* between any two of its statements.                                      *)
(***************************************************************************)

MaxLoads == 2           \* load requests of a session

Threads == 1 .. MaxLoads

GuiFile == RawTable(TRUE, << Row([text |-> "iso", local |-> 60, off |-> 0], NominalReading) >>)
GuiDirectoryFile ==
    RawTable(TRUE, << Row([text |-> "iso", local |-> 120, off |-> 0], HotReading) >>)

\* DataLoader(): data_dir = "data/raw"
DefaultDataDir == "data/raw"

\* the disk: the file a path names, or the CSV files of the directory it
\* names; data/raw holds no CSV file
Disk ==
    [path \in {"a.csv", "empty.csv", "dir", DefaultDataDir} |->
        CASE path = "a.csv" -> << GuiFile >>
          [] path = "empty.csv" -> << EmptyFile >>
          [] path = "dir" -> << GuiDirectoryFile >>
          [] OTHER -> << >>]

\* what the user asks for: a file through load_csv_file or a directory
\* through load_directory
Requests ==
    { [kind |-> "file", path |-> "a.csv"],
      [kind |-> "file", path |-> "empty.csv"],
      [kind |-> "directory", path |-> "dir"] }

NoRequest == [kind |-> "none", path |-> "none"]

NoThread == [pc |-> "unstarted", request |-> NoRequest, result |-> << >>]

\* a DataLoader object: its data_dir, and its data and current_file
NewLoader(data_dir) == [data_dir |-> data_dir, self |-> NoLoader]

InitGui ==
    /\ pc = "gui"
    /\ gui = [disk |-> Disk,
              data_loader |-> None, current_df |-> None, current_file |-> None,
              loaders |-> [t \in Threads |-> NewLoader(DefaultDataDir)],
              threads |-> [t \in Threads |-> NoThread]]
    /\ IdleCheck /\ IdleConfig /\ IdleLoad /\ IdleCycle /\ IdleReport /\ IdleStage

\* the next thread to start: threads are numbered in the order of the clicks
Unstarted(t) ==
    /\ gui.threads[t].pc = "unstarted"
    /\ \A u \in Threads : u < t => gui.threads[u].pc # "unstarted"

GuiUnchanged ==
    UNCHANGED <<pc, checkVars, configVars, loadVars, cycleVars, reportVars, stageVars>>

\* load_csv_file: threading.Thread(target=load_data).start() with the chosen
\* file_path
LoadCsvFile(t) ==
    /\ Unstarted(t)
    /\ \E r \in { q \in Requests : q.kind = "file" } :
          gui' = [gui EXCEPT !.threads[t] = [pc |-> "start", request |-> r, result |-> << >>]]
    /\ GuiUnchanged

\* load_directory: threading.Thread(target=load_data).start() with dir_path
LoadDirectory(t) ==
    /\ Unstarted(t)
    /\ \E r \in { q \in Requests : q.kind = "directory" } :
          gui' = [gui EXCEPT !.threads[t] = [pc |-> "start", request |-> r, result |-> << >>]]
    /\ GuiUnchanged

\* self.data_loader = DataLoader() / DataLoader(data_dir=dir_path)
CreateLoader(t) ==
    /\ gui.threads[t].pc = "start"
    /\ gui' = [gui EXCEPT
                 !.loaders[t] = NewLoader(IF gui.threads[t].request.kind = "directory"
                                          THEN gui.threads[t].request.path
                                          ELSE DefaultDataDir),
                 !.data_loader = Some(t),
                 !.threads[t].pc = "created"]
    /\ GuiUnchanged

\* the loader self.data_loader names when the thread evaluates the call
SharedLoader(t) == gui.data_loader[1]

\* the call has changed the loader it ran on; the thread holds what it
\* returned, or has ended with the exception it raised
AfterLoad(t, target, after) ==
    [gui EXCEPT !.loaders[target].self = after,
                !.threads[t].pc = IF after.status = "raised" THEN "failed" ELSE "loaded",
                !.threads[t].result = IF after.status = "raised" THEN << >>
                                      ELSE after.returned]

\* the right-hand side of self.current_df = self.data_loader.load_csv(file_path):
\* the call runs on the loader the field names now
RunLoadCsv(t) ==
    /\ gui.threads[t].pc = "created"
    /\ gui.threads[t].request.kind = "file"
    /\ \E target \in { SharedLoader(t) } :
       \E self \in { gui.loaders[target].self },
          table \in { gui.disk[gui.threads[t].request.path][1] } :
       \E after \in { load_csv(self, table) } :
          gui' = AfterLoad(t, target, after)
    /\ GuiUnchanged

\* the right-hand side of self.current_df = self.data_loader.load_all_csvs():
\* the call runs on the loader the field names now, over that loader's data_dir
RunLoadAllCsvs(t) ==
    /\ gui.threads[t].pc = "created"
    /\ gui.threads[t].request.kind = "directory"
    /\ \E target \in { SharedLoader(t) } :
       \E self \in { gui.loaders[target].self },
          tables \in { gui.disk[gui.loaders[target].data_dir] } :
       \E after \in { load_all_csvs(self, tables) } :
          gui' = AfterLoad(t, target, after)
    /\ GuiUnchanged

\* self.current_df = <what the call returned>
AssignCurrentDf(t) ==
    /\ gui.threads[t].pc = "loaded"
    /\ gui' = [gui EXCEPT !.current_df = Some(gui.threads[t].result),
                          !.threads[t].pc = "assigned"]
    /\ GuiUnchanged

\* self.current_file = file_path / dir_path
AssignCurrentFile(t) ==
    /\ gui.threads[t].pc = "assigned"
    /\ gui' = [gui EXCEPT !.current_file = Some(gui.threads[t].request.path),
                          !.threads[t].pc = "finished"]
    /\ GuiUnchanged

NextGui ==
    \E t \in Threads :
        \/ LoadCsvFile(t)
        \/ LoadDirectory(t)
        \/ CreateLoader(t)
        \/ RunLoadCsv(t)
        \/ RunLoadAllCsvs(t)
        \/ AssignCurrentDf(t)
        \/ AssignCurrentFile(t)

SpecGui == InitGui /\ [][NextGui]_vars

\* the table a load request yields when it runs on a loader of its own
TableOf(request) ==
    IF request.kind = "file" THEN load_csv(NoLoader, gui.disk[request.path][1]).returned
    ELSE load_all_csvs(NoLoader, gui.disk[request.path]).returned

\* the three fields are those of the load request of thread t
FromRequest(t) ==
    /\ gui.data_loader = Some(t)
    /\ gui.current_file = Some(gui.threads[t].request.path)
    /\ gui.current_df = Some(TableOf(gui.threads[t].request))
    /\ gui.loaders[t].self.data = gui.current_df

\* every load that was started has finished, and none of them failed
AllLoaded ==
    /\ pc = "gui"
    /\ \E t \in Threads : gui.threads[t].pc = "finished"
    /\ \A t \in Threads : gui.threads[t].pc \in {"unstarted", "finished"}

\* C30: for any interleaving of the background load threads started by
\* load_csv_file and load_directory, once all of them have finished the
\* fields current_df, current_file and data_loader all come from the same
\* load request: the table shown is the one loaded from the file or
\* directory recorded as current, by the loader recorded.
C30_FieldsFromOneRequest ==
    AllLoaded => \E t \in Threads : FromRequest(t)

\* the same when a single load was started
C30_SingleLoad ==
    (AllLoaded /\ \A t \in Threads : t > 1 => gui.threads[t].pc = "unstarted")
        => FromRequest(1)

=============================================================================
